---- MODULE Spec2Model ----
(***************************************************************************)
(* A model of src/src/workers/pixelator.worker.ts: the pixelation worker   *)
(* (colour conversion, resampling, dithering, k-means, palette-gap         *)
(* suggestion and the message handler).                                    *)
(*                                                                         *)
(* Numbers.  The worker computes in IEEE doubles.  The model computes in   *)
(* fixed point: a real v is held as the integer round(v * FP).  Bytes of   *)
(* an ImageData are plain integers 0..255.  k-means centroids, which the   *)
(* code compares for exact equality, are held as exact fractions.          *)
(***************************************************************************)
EXTENDS Integers, Sequences, FiniteSets, TLC

\* ------------------------------------------------------------------ numbers

\* one unit of the fixed-point representation: v is held as v * FP
FP == 100 * 100

\* a / b rounded to the nearest integer (b > 0), halves up
RDiv(a, b) == (2 * a + b) \div (2 * b)

\* the product of two fixed-point numbers
FMul(a, b) == (a * b) \div FP

Min(a, b) == IF a < b THEN a ELSE b
Max(a, b) == IF a > b THEN a ELSE b
Abs(a) == IF a < 0 THEN 0 - a ELSE a

\* ceil(a / b) for a >= 0, b > 0
CeilDiv(a, b) == (a + b - 1) \div b

\* Math.round of a fixed-point number: nearest integer, halves towards +Infinity
MathRound(v) == (2 * v + FP) \div (2 * FP)

\* A store into a plain Uint8Array instead: truncate, then modulo 256
ToUint8Wrap(v) ==
    IF v < 0 THEN (256 - (((0 - v) \div FP) % 256)) % 256
    ELSE (v \div FP) % 256

\* A store into a Uint8ClampedArray: clamp to 0..255, round to nearest, halves to even
ToUint8Clamp(v) ==
    IF v <= 0 THEN 0
    ELSE IF v >= 255 * FP THEN 255
    ELSE LET lo == v \div FP
             fr == v % FP
         IN  IF 2 * fr < FP THEN lo
             ELSE IF 2 * fr > FP THEN lo + 1
             ELSE IF lo % 2 = 0 THEN lo ELSE lo + 1

\* the sum of the values of a function with a finite domain
RECURSIVE SumFn(_)
SumFn(f) ==
    IF DOMAIN f = {} THEN 0
    ELSE LET e == CHOOSE e \in DOMAIN f : TRUE
         IN  f[e] + SumFn([d \in (DOMAIN f) \ {e} |-> f[d]])

\* r to the power e: the plain product for e = 2, fixed-point products for e = 3 and e = 5
PowerOf(r, e) ==
    IF e = 2 THEN r * r
    ELSE IF e = 3 THEN FMul(FMul(r, r), r)
    ELSE FMul(FMul(FMul(FMul(r, r), r), r), r)

\* the largest r in lo..hi with PowerOf(r, e) <= t, by bisection (PowerOf(lo, e) <= t)
RECURSIVE RootSearch(_, _, _, _)
RootSearch(t, e, lo, hi) ==
    IF lo >= hi THEN lo
    ELSE LET mid == (lo + hi + 1) \div 2
         IN  IF PowerOf(mid, e) <= t
             THEN RootSearch(t, e, mid, hi)
             ELSE RootSearch(t, e, lo, mid - 1)

\* Math.sqrt of a non-negative integer n, as an integer (floor)
ISqrt(n) == RootSearch(n, 2, 0, 46340)

\* Math.pow(t, 1/3) of a fixed-point t >= 0
FCbrt(t) == RootSearch(t, 3, 0, 4 * FP)

\* Math.pow(t, 2.4) of a fixed-point t >= 0: t^2 * (t^(1/5))^2
FPow24(t) ==
    LET q == RootSearch(t, 5, 0, 2 * FP)
    IN  FMul(FMul(t, t), FMul(q, q))

\* ------------------------------------------------- colour conversion

\* hexadecimal digits, as the regular expression [a-f\d] with the i flag accepts them
HexDigits ==
    ("0" :> 0) @@ ("1" :> 1) @@ ("2" :> 2) @@ ("3" :> 3) @@ ("4" :> 4) @@
    ("5" :> 5) @@ ("6" :> 6) @@ ("7" :> 7) @@ ("8" :> 8) @@ ("9" :> 9) @@
    ("a" :> 10) @@ ("b" :> 11) @@ ("c" :> 12) @@ ("d" :> 13) @@ ("e" :> 14) @@
    ("f" :> 15) @@ ("A" :> 10) @@ ("B" :> 11) @@ ("C" :> 12) @@ ("D" :> 13) @@
    ("E" :> 14) @@ ("F" :> 15)

UpperHex == <<"0", "1", "2", "3", "4", "5", "6", "7", "8", "9", "A", "B", "C", "D", "E", "F">>

\* A colour string is a sequence of characters.  hexToRgb parses an optional "#"
\* and three pairs of hexadecimal digits; anything else is black.
hexToRgb(hex) ==
    LET off == IF Len(hex) > 0 /\ hex[1] = "#" THEN 1 ELSE 0
        ok  == /\ Len(hex) >= off + 6
               /\ \A i \in 1..6 : hex[off + i] \in DOMAIN HexDigits
        pair(i) == 16 * HexDigits[hex[off + i]] + HexDigits[hex[off + i + 1]]
    IN  IF ok THEN [r |-> pair(1), g |-> pair(3), b |-> pair(5)]
        ELSE [r |-> 0, g |-> 0, b |-> 0]

\* rgbToHex: each channel rounded, written as two upper-case digits ("#RRGGBB").
\* toString(16) of a value above 255 has more than two digits and of a negative
\* value a sign; both are kept as the code writes them.
RECURSIVE ToString16(_)
ToString16(n) ==
    IF n < 0 THEN <<"-">> \o ToString16(0 - n)
    ELSE IF n < 16 THEN <<UpperHex[n + 1]>>
    ELSE ToString16(n \div 16) \o <<UpperHex[(n % 16) + 1]>>

toHex(c) ==
    LET hex == ToString16(MathRound(c))
    IN  IF Len(hex) = 1 THEN <<"0">> \o hex ELSE hex

rgbToHex(rgb) == <<"#">> \o toHex(rgb.r) \o toHex(rgb.g) \o toHex(rgb.b)

\* one channel of rgbToXyz: c / 255, the sRGB decoding curve, times 100.
\* c is fixed point; the result is in units of 1/100.
SrgbToLinear(c) ==
    LET v == RDiv(c, 255)
    IN  IF 10 * v > 4045
        THEN FPow24(RDiv((v + 550) * 1000, 1055))
        ELSE RDiv(v * 100, 1292)

\* rgbToXyz: c is an RGB of fixed-point channels; x, y, z are in units of 1/100
rgbToXyz(c) ==
    LET r == SrgbToLinear(c.r)
        g == SrgbToLinear(c.g)
        b == SrgbToLinear(c.b)
    IN  [x |-> RDiv(r * 4124 + g * 3576 + b * 1805, 10000),
         y |-> RDiv(r * 2126 + g * 7152 + b * 722, 10000),
         z |-> RDiv(r * 193 + g * 1192 + b * 9505, 10000)]

\* the cube-root-with-linear-floor transfer of xyzToLab on a fixed-point t
LabF(t) ==
    IF 100 * t > 8856
    THEN FCbrt(t)
    ELSE RDiv(7787 * t, 1000) + RDiv(16 * FP, 116)

\* xyzToLab: the white point 95.047, 100.000, 108.883 is in the units of x, y, z;
\* l, a, b are in units of 1/100
xyzToLab(c) ==
    LET x == LabF(RDiv(c.x * FP, 9505))
        y == LabF(RDiv(c.y * FP, 10000))
        z == LabF(RDiv(c.z * FP, 10888))
    IN  [l |-> RDiv(116 * y - 16 * FP, 100),
         a |-> RDiv(500 * (x - y), 100),
         b |-> RDiv(200 * (y - z), 100)]

rgbToLab(c) == xyzToLab(rgbToXyz(c))

\* getDeltaE: the Euclidean distance of two Lab colours, in units of 1/100
getDeltaE(labA, labB) ==
    LET deltaL == labA.l - labB.l
        deltaA == labA.a - labB.a
        deltaB == labA.b - labB.b
    IN  ISqrt(deltaL * deltaL + deltaA * deltaA + deltaB * deltaB)

\* an RGB of byte channels as an RGB of fixed-point channels
ByteRGB(r, g, b) == [r |-> r * FP, g |-> g * FP, b |-> b * FP]

\* ------------------------------------------------------------ rasters

\* An ImageData is [width, height, data]: data holds width * height * 4 bytes,
\* data[i + 1] being the code's data[i].
At(data, i) == data[i + 1]

\* new ImageData(width, height): the constructor throws when a dimension is 0
ImageDataThrows(width, height) == width = 0 \/ height = 0

\* the four bytes of the pixel at (x, y)
PixelAt(img, x, y) ==
    LET idx == (y * img.width + x) * 4
    IN  <<At(img.data, idx), At(img.data, idx + 1), At(img.data, idx + 2), At(img.data, idx + 3)>>

\* ------------------------------------------------------------ resizing

\* srcX with Math.round in place of Math.floor, kept inside the source
NearestSrcXRounded(srcData, width, x) ==
    Min(srcData.width - 1, RDiv(x * srcData.width, width))

\* resampleNearest: srcX = floor(x * (srcData.width / width)), srcY likewise
NearestSrcX(srcData, width, x) == (x * srcData.width) \div width
NearestSrcY(srcData, height, y) == (y * srcData.height) \div height

resampleNearest(srcData, width, height) ==
    [width  |-> width,
     height |-> height,
     data   |-> [i \in 1..(width * height * 4) |->
        LET destIdx == ((i - 1) \div 4) * 4
            c    == (i - 1) % 4
            x    == ((i - 1) \div 4) % width
            y    == ((i - 1) \div 4) \div width
            srcX == NearestSrcX(srcData, width, x)
            srcY == NearestSrcY(srcData, height, y)
            srcIdx == (srcY * srcData.width + srcX) * 4
        IN  At(srcData.data, srcIdx + c)]]

\* resampleBilinear.  srcX = x * (srcData.width - 1) / width is the exact
\* fraction nx / width, so dx = (nx % width) / width; dy likewise.  value is
\* then the exact fraction num / (width * height).
BilinearValue(srcData, width, height, x, y, c) ==
    LET nx == x * (srcData.width - 1)
        ny == y * (srcData.height - 1)
        x1 == nx \div width
        y1 == ny \div height
        x2 == Min(x1 + 1, srcData.width - 1)
        y2 == Min(y1 + 1, srcData.height - 1)
        dxn == nx % width
        dyn == ny % height
        v1 == At(srcData.data, (y1 * srcData.width + x1) * 4 + c)
        v2 == At(srcData.data, (y1 * srcData.width + x2) * 4 + c)
        v3 == At(srcData.data, (y2 * srcData.width + x1) * 4 + c)
        v4 == At(srcData.data, (y2 * srcData.width + x2) * 4 + c)
        top    == v1 * (width - dxn) + v2 * dxn
        bottom == v3 * (width - dxn) + v4 * dxn
    IN  [num |-> top * (height - dyn) + bottom * dyn, den |-> width * height]

resampleBilinear(srcData, width, height) ==
    [width  |-> width,
     height |-> height,
     data   |-> [i \in 1..(width * height * 4) |->
        LET c == (i - 1) % 4
            x == ((i - 1) \div 4) % width
            y == ((i - 1) \div 4) \div width
            v == BilinearValue(srcData, width, height, x, y, c)
        IN  ToUint8Clamp(RDiv(v.num, v.den) * FP)]]

\* Math.PI in fixed point
PiFP == 31416

\* Math.sin(Math.PI * u) for a fixed-point u >= 0: reduced to 0..1/2, then the
\* series y - y^3/3! + y^5/5! - y^7/7! + y^9/9!
RECURSIVE FSinPi(_)
FSinPi(u) ==
    IF u >= 2 * FP THEN FSinPi(u % (2 * FP))
    ELSE IF u >= FP THEN 0 - FSinPi(u - FP)
    ELSE IF 2 * u > FP THEN FSinPi(FP - u)
    ELSE LET y  == FMul(PiFP, u)
             y2 == FMul(y, y)
             t4 == FP - RDiv(y2, 72)
             t3 == FP - RDiv(FMul(y2, t4), 42)
             t2 == FP - RDiv(FMul(y2, t3), 20)
             t1 == FP - RDiv(FMul(y2, t2), 6)
         IN  FMul(y, t1)

\* sinc of the fraction n / d (d > 0), as a fixed-point number
sinc(n, d) ==
    LET x == Abs(n)
    IN  IF x = 0 THEN FP
        ELSE LET u   == RDiv(x * FP, d)
                 piX == FMul(PiFP, u)
             IN  IF piX = 0 THEN FP ELSE RDiv(FSinPi(u) * FP, piX)

\* lanczosKernel(x, a) at x = n / d
lanczosKernel(n, d, a) ==
    IF n > 0 - a * d /\ n < a * d
    THEN FMul(sinc(n, d), sinc(n, a * d))
    ELSE 0

\* the lobe parameter of resampleLanczos
LanczosA == 3

\* The loops of resampleLanczos over the window of the destination pixel
\* (dx, dy), from window position n on (row by row, 2a positions per row);
\* acc holds r, g, b, a_val and totalWeight.  sx = (dx + 0.5) * ratioX - 0.5 is
\* the fraction nsx / (2 * width), sy likewise.
RECURSIVE LanczosLoop(_, _, _, _, _, _, _)
LanczosLoop(imageData, width, height, dx, dy, n, acc) ==
    LET a   == LanczosA
        nsx == (2 * dx + 1) * imageData.width - width
        nsy == (2 * dy + 1) * imageData.height - height
        x   == (nsx \div (2 * width)) - a + 1 + (n % (2 * a))
        y   == (nsy \div (2 * height)) - a + 1 + (n \div (2 * a))
        weight == FMul(lanczosKernel(nsx - x * 2 * width, 2 * width, a),
                       lanczosKernel(nsy - y * 2 * height, 2 * height, a))
        srcIndex == (y * imageData.width + x) * 4
    IN  IF n >= (2 * a) * (2 * a) THEN acc
        ELSE IF y < 0 \/ y >= imageData.height \/ x < 0 \/ x >= imageData.width
        THEN LanczosLoop(imageData, width, height, dx, dy, n + 1, acc)
        ELSE IF weight = 0
        THEN LanczosLoop(imageData, width, height, dx, dy, n + 1, acc)
        ELSE LanczosLoop(imageData, width, height, dx, dy, n + 1,
                [r |-> acc.r + At(imageData.data, srcIndex) * weight,
                 g |-> acc.g + At(imageData.data, srcIndex + 1) * weight,
                 b |-> acc.b + At(imageData.data, srcIndex + 2) * weight,
                 a_val |-> acc.a_val + At(imageData.data, srcIndex + 3) * weight,
                 totalWeight |-> acc.totalWeight + weight])

\* sum / totalWeight as a fixed-point number
LanczosQuotient(sum, totalWeight) == 100 * RDiv(sum * 100, totalWeight)

\* The four values resampleLanczos stores for the destination pixel (dx, dy),
\* before the store clamps them
LanczosValue(imageData, width, height, dx, dy) ==
    LET acc == LanczosLoop(imageData, width, height, dx, dy, 0,
                           [r |-> 0, g |-> 0, b |-> 0, a_val |-> 0, totalWeight |-> 0])
    IN  IF acc.totalWeight > 0
        THEN <<LanczosQuotient(acc.r, acc.totalWeight), LanczosQuotient(acc.g, acc.totalWeight),
               LanczosQuotient(acc.b, acc.totalWeight), LanczosQuotient(acc.a_val, acc.totalWeight)>>
        ELSE <<0, 0, 0, 0>>

\* the sequence q[1] \o q[2] \o ... of a sequence of sequences
RECURSIVE Flatten(_)
Flatten(q) == IF q = <<>> THEN <<>> ELSE Head(q) \o Flatten(Tail(q))

resampleLanczos(imageData, width, height) ==
    [width  |-> width,
     height |-> height,
     data   |-> Flatten([n \in 1..(width * height) |->
        LET v == LanczosValue(imageData, width, height, (n - 1) % width, (n - 1) \div width)
        IN  <<ToUint8Clamp(v[1]), ToUint8Clamp(v[2]), ToUint8Clamp(v[3]), ToUint8Clamp(v[4])>>])]

\* ------------------------------------------------------------ dithering

ditherMatrices ==
    [name \in {"bayer-4x4", "bayer-8x8", "halftone-dot", "diagonal-line", "cross-hatch", "grid"} |->
        CASE name = "bayer-4x4" ->
               [matrix |-> <<<<0, 8, 2, 10>>, <<12, 4, 14, 6>>, <<3, 11, 1, 9>>, <<15, 7, 13, 5>>>>,
                size |-> 4, divisor |-> 16]
          [] name = "bayer-8x8" ->
               [matrix |-> <<
                    <<0, 32, 8, 40, 2, 34, 10, 42>>, <<48, 16, 56, 24, 50, 18, 58, 26>>,
                    <<12, 44, 4, 36, 14, 46, 6, 38>>, <<60, 28, 52, 20, 62, 30, 54, 22>>,
                    <<3, 35, 11, 43, 1, 33, 9, 41>>, <<51, 19, 59, 27, 49, 17, 57, 25>>,
                    <<15, 47, 7, 39, 13, 45, 5, 37>>, <<63, 31, 55, 23, 61, 29, 53, 21>>>>,
                size |-> 8, divisor |-> 64]
          [] name = "halftone-dot" ->
               [matrix |-> <<<<12, 5, 6, 13>>, <<4, 0, 1, 7>>, <<8, 2, 3, 11>>, <<14, 9, 10, 15>>>>,
                size |-> 4, divisor |-> 16]
          [] name = "diagonal-line" ->
               [matrix |-> <<<<15, 7, 3, 7>>, <<7, 3, 7, 15>>, <<3, 7, 15, 7>>, <<7, 15, 7, 3>>>>,
                size |-> 4, divisor |-> 16]
          [] name = "cross-hatch" ->
               [matrix |-> <<<<0, 8, 0, 8>>, <<8, 15, 8, 15>>, <<0, 8, 0, 8>>, <<8, 15, 8, 15>>>>,
                size |-> 4, divisor |-> 16]
          [] name = "grid" ->
               [matrix |-> <<<<0, 0, 0, 0>>, <<0, 15, 15, 0>>, <<0, 15, 15, 0>>, <<0, 0, 0, 0>>>>,
                size |-> 4, divisor |-> 16]]

\* a kernel entry whose weight is a quarter whatever the table says
KQuarter(dx, dy, num, den) == [dx |-> dx, dy |-> dy, num |-> 1, den |-> 4]

\* a kernel entry that points backwards: the offsets are mirrored
KBackward(dx, dy, num, den) == [dx |-> 0 - dx, dy |-> 0 - dy, num |-> num, den |-> den]

\* one kernel entry: the weight f is the fraction num / den
K(dx, dy, num, den) == [dx |-> dx, dy |-> dy, num |-> num, den |-> den]

errorKernels ==
    [name \in {"floyd-steinberg", "burkes", "stucki", "sierra-2", "sierra-lite"} |->
        CASE name = "floyd-steinberg" ->
               <<K(1, 0, 7, 16), K(-1, 1, 3, 16), K(0, 1, 5, 16), K(1, 1, 1, 16)>>
          [] name = "burkes" ->
               <<K(1, 0, 8, 32), K(2, 0, 4, 32), K(-2, 1, 2, 32), K(-1, 1, 4, 32),
                 K(0, 1, 8, 32), K(1, 1, 4, 32), K(2, 1, 2, 32)>>
          [] name = "stucki" ->
               <<K(1, 0, 8, 42), K(2, 0, 4, 42), K(-2, 1, 2, 42), K(-1, 1, 4, 42),
                 K(0, 1, 8, 42), K(1, 1, 4, 42), K(2, 1, 2, 42), K(-2, 2, 1, 42),
                 K(-1, 2, 2, 42), K(0, 2, 4, 42), K(1, 2, 2, 42), K(2, 2, 1, 42)>>
          [] name = "sierra-2" ->
               <<K(1, 0, 4, 16), K(2, 0, 3, 16), K(-2, 1, 1, 16), K(-1, 1, 2, 16),
                 K(0, 1, 3, 16), K(1, 1, 2, 16), K(2, 1, 1, 16)>>
          [] name = "sierra-lite" ->
               <<K(1, 0, 2, 4), K(-1, 1, 1, 4), K(0, 1, 1, 4)>>]

\* the initial minDist of the nearest-colour searches
Infinity == 2147483647

\* The loop of findClosestColor with dist <= minDist as its test: of the entries
\* at the least distance the last one is kept
RECURSIVE ClosestLoopLastWins(_, _, _, _, _)
ClosestLoopLastWins(pixelLab, paletteLab, i, minDist, closest) ==
    IF i > Len(paletteLab) THEN closest
    ELSE LET dist == getDeltaE(pixelLab, paletteLab[i])
         IN  IF dist <= minDist
             THEN ClosestLoopLastWins(pixelLab, paletteLab, i + 1, dist, i)
             ELSE ClosestLoopLastWins(pixelLab, paletteLab, i + 1, minDist, closest)

\* The loop of findClosestColor from palette index i (counted from 1) on; closest
\* is the index of the entry held in the code's variable closest.
RECURSIVE ClosestLoop(_, _, _, _, _)
ClosestLoop(pixelLab, paletteLab, i, minDist, closest) ==
    IF i > Len(paletteLab) THEN closest
    ELSE LET dist == getDeltaE(pixelLab, paletteLab[i])
         IN  IF dist < minDist
             THEN ClosestLoop(pixelLab, paletteLab, i + 1, dist, i)
             ELSE ClosestLoop(pixelLab, paletteLab, i + 1, minDist, closest)

\* findClosestColor, as the index (from 1) of the palette entry it returns;
\* pixel has fixed-point channels.  closest starts as palette[0].
findClosestIndex(pixel, paletteLab) ==
    ClosestLoop(rgbToLab(pixel), paletteLab, 1, Infinity, 1)

\* a matcher that hands back the pixel itself, as bytes, instead of a palette entry
PixelAsColor(pixel, palette, paletteLab) ==
    [r |-> ToUint8Clamp(pixel.r), g |-> ToUint8Clamp(pixel.g), b |-> ToUint8Clamp(pixel.b)]

findClosestColor(pixel, palette, paletteLab) ==
    palette[findClosestIndex(pixel, paletteLab)]

\* paletteHex.map(hexToRgb) and paletteRGB.map(rgbToLab)
PaletteRGB(paletteHex) == [i \in 1..Len(paletteHex) |-> hexToRgb(paletteHex[i])]
PaletteLab(paletteRGB) ==
    [i \in 1..Len(paletteRGB) |->
        rgbToLab(ByteRGB(paletteRGB[i].r, paletteRGB[i].g, paletteRGB[i].b))]

BASE_DITHER_STRENGTH == 64

\* a nudge without the - 0.5 that centres it: threshold / mDiv * BASE_DITHER_STRENGTH * (strength / 100)
NudgeUncentred(threshold, mDiv, strength) ==
    (2 * threshold * BASE_DITHER_STRENGTH * strength * (FP \div 100)) \div (2 * mDiv)

\* a nudge that leaves the strength out: (threshold / mDiv - 0.5) * BASE_DITHER_STRENGTH
NudgeAtFullStrength(threshold, mDiv, strength) ==
    ((2 * threshold - mDiv) * BASE_DITHER_STRENGTH * FP) \div (2 * mDiv)

\* the nudge of ordered dithering, fixed point:
\* (threshold / mDiv - 0.5) * BASE_DITHER_STRENGTH * (strength / 100)
Nudge(threshold, mDiv, strength) ==
    ((2 * threshold - mDiv) * BASE_DITHER_STRENGTH * strength * (FP \div 100)) \div (2 * mDiv)

\* data with the bytes at index .. index + 2 replaced by r, g, b and the alpha
\* byte left as it is
SetPixelKeepAlpha(data, index, r, g, b, a) ==
    [j \in 1..Len(data) |->
        IF j = index + 1 THEN r
        ELSE IF j = index + 2 THEN g
        ELSE IF j = index + 3 THEN b
        ELSE data[j]]

\* data with the bytes at index .. index + 3 replaced by r, g, b, a
SetPixel(data, index, r, g, b, a) ==
    [j \in 1..Len(data) |->
        IF j = index + 1 THEN r
        ELSE IF j = index + 2 THEN g
        ELSE IF j = index + 3 THEN b
        ELSE IF j = index + 4 THEN a
        ELSE data[j]]

\* One iteration of the ordered-dithering loop of applyDithering, at (x, y):
\* the new contents of pixels.
OrderedPixel(pixels, width, x, y, algorithm, strength, paletteRGB, paletteLab) ==
    LET index == (y * width + x) * 4
        dither == ditherMatrices[algorithm]
        threshold == dither.matrix[(y % dither.size) + 1][(x % dither.size) + 1]
        nudge == Nudge(threshold, dither.divisor, strength)
        oldColor == [r |-> Max(0, Min(255 * FP, At(pixels, index) * FP + nudge)),
                     g |-> Max(0, Min(255 * FP, At(pixels, index + 1) * FP + nudge)),
                     b |-> Max(0, Min(255 * FP, At(pixels, index + 2) * FP + nudge))]
        newColor == findClosestColor(oldColor, paletteRGB, paletteLab)
    IN  IF At(pixels, index + 3) < 128
        THEN [pixels EXCEPT ![index + 4] = 0]
        ELSE SetPixel(pixels, index, newColor.r, newColor.g, newColor.b, 255)

\* The loop over the kernel without the test of the neighbour's alpha
RECURSIVE DiffuseToAny(_, _, _, _, _, _, _, _)
DiffuseToAny(float, width, height, x, y, err, kernel, i) ==
    IF i > Len(kernel) THEN float
    ELSE LET k  == kernel[i]
             nX == x + k.dx
             nY == y + k.dy
             i2 == (nY * width + nX) * 4
             next ==
                IF nX >= 0 /\ nX < width /\ nY >= 0 /\ nY < height
                THEN [float EXCEPT ![i2 + 1] = @ + RDiv(err.r * k.num, k.den),
                                   ![i2 + 2] = @ + RDiv(err.g * k.num, k.den),
                                   ![i2 + 3] = @ + RDiv(err.b * k.num, k.den)]
                ELSE float
         IN  DiffuseToAny(next, width, height, x, y, err, kernel, i + 1)

\* The loop over the kernel with a test of the index i2 in place of the test of
\* nX and nY: a neighbour beyond the end of a row is the pixel at the start of
\* the next one
RECURSIVE DiffuseWrapping(_, _, _, _, _, _, _, _)
DiffuseWrapping(float, width, height, x, y, err, kernel, i) ==
    IF i > Len(kernel) THEN float
    ELSE LET k  == kernel[i]
             nX == x + k.dx
             nY == y + k.dy
             i2 == (nY * width + nX) * 4
             next ==
                IF i2 >= 0 /\ i2 + 3 < Len(float)
                THEN IF At(float, i2 + 3) < 128 * FP
                     THEN float
                     ELSE [float EXCEPT ![i2 + 1] = @ + RDiv(err.r * k.num, k.den),
                                        ![i2 + 2] = @ + RDiv(err.g * k.num, k.den),
                                        ![i2 + 3] = @ + RDiv(err.b * k.num, k.den)]
                ELSE float
         IN  DiffuseWrapping(next, width, height, x, y, err, kernel, i + 1)

\* The loop over the kernel of the error-diffusion branch, from entry i on: the
\* new contents of pixelDataFloat.
RECURSIVE Diffuse(_, _, _, _, _, _, _, _)
Diffuse(float, width, height, x, y, err, kernel, i) ==
    IF i > Len(kernel) THEN float
    ELSE LET k  == kernel[i]
             nX == x + k.dx
             nY == y + k.dy
             i2 == (nY * width + nX) * 4
             next ==
                IF nX >= 0 /\ nX < width /\ nY >= 0 /\ nY < height
                THEN IF At(float, i2 + 3) < 128 * FP
                     THEN float
                     ELSE [float EXCEPT ![i2 + 1] = @ + RDiv(err.r * k.num, k.den),
                                        ![i2 + 2] = @ + RDiv(err.g * k.num, k.den),
                                        ![i2 + 3] = @ + RDiv(err.b * k.num, k.den)]
                ELSE float
         IN  Diffuse(next, width, height, x, y, err, kernel, i + 1)

\* An iteration of the error-diffusion loop that diffuses the whole old colour,
\* err = oldColor * strengthFactor, instead of its distance to the new colour
ErrorPixelWholeColour(pixels, float, width, height, x, y, algorithm, strength, paletteRGB, paletteLab) ==
    LET index == (y * width + x) * 4
        oldColor == [r |-> At(float, index), g |-> At(float, index + 1), b |-> At(float, index + 2)]
        newColor == findClosestColor(oldColor, paletteRGB, paletteLab)
        hasKernel == algorithm \in DOMAIN errorKernels
        err == [r |-> RDiv(oldColor.r * strength, 100),
                g |-> RDiv(oldColor.g * strength, 100),
                b |-> RDiv(oldColor.b * strength, 100)]
    IN  IF At(float, index + 3) < 128 * FP
        THEN [pixels |-> [pixels EXCEPT ![index + 4] = 0], float |-> float]
        ELSE [pixels |-> SetPixel(pixels, index, newColor.r, newColor.g, newColor.b, 255),
              float  |-> IF algorithm = "none" \/ ~hasKernel
                         THEN float
                         ELSE Diffuse(float, width, height, x, y, err, errorKernels[algorithm], 1)]

\* One iteration of the error-diffusion loop of applyDithering, at (x, y): the
\* new contents of pixels and of pixelDataFloat.  An algorithm that names no
\* kernel ("none" or any other word) has kernel undefined and diffuses nothing.
ErrorPixel(pixels, float, width, height, x, y, algorithm, strength, paletteRGB, paletteLab) ==
    LET index == (y * width + x) * 4
        oldColor == [r |-> At(float, index), g |-> At(float, index + 1), b |-> At(float, index + 2)]
        newColor == findClosestColor(oldColor, paletteRGB, paletteLab)
        hasKernel == algorithm \in DOMAIN errorKernels
        err == [r |-> RDiv((oldColor.r - newColor.r * FP) * strength, 100),
                g |-> RDiv((oldColor.g - newColor.g * FP) * strength, 100),
                b |-> RDiv((oldColor.b - newColor.b * FP) * strength, 100)]
    IN  IF At(float, index + 3) < 128 * FP
        THEN [pixels |-> [pixels EXCEPT ![index + 4] = 0], float |-> float]
        ELSE [pixels |-> SetPixel(pixels, index, newColor.r, newColor.g, newColor.b, 255),
              float  |-> IF algorithm = "none" \/ ~hasKernel
                         THEN float
                         ELSE Diffuse(float, width, height, x, y, err, errorKernels[algorithm], 1)]

\* new Float32Array(pixels)
Float32Array(pixels) == [j \in 1..Len(pixels) |-> pixels[j] * FP]

\* One iteration of either loop of applyDithering at pixel number n (row-major)
DitherPixel(st, width, height, n, algorithm, strength, paletteRGB, paletteLab) ==
    LET x == n % width
        y == n \div width
    IN  IF algorithm \in DOMAIN ditherMatrices
        THEN [pixels |-> OrderedPixel(st.pixels, width, x, y, algorithm, strength,
                                      paletteRGB, paletteLab),
              float  |-> st.float]
        ELSE ErrorPixel(st.pixels, st.float, width, height, x, y, algorithm, strength,
                        paletteRGB, paletteLab)

\* applyDithering from pixel number n on
RECURSIVE DitherFrom(_, _, _, _, _, _, _, _)
DitherFrom(st, width, height, n, algorithm, strength, paletteRGB, paletteLab) ==
    IF n >= width * height THEN st
    ELSE DitherFrom(DitherPixel(st, width, height, n, algorithm, strength, paletteRGB, paletteLab),
                    width, height, n + 1, algorithm, strength, paletteRGB, paletteLab)

\* applyDithering: the contents of imageData.data on return
applyDithering(imageData, paletteHex, algorithm, strength) ==
    LET paletteRGB == PaletteRGB(paletteHex)
        paletteLab == PaletteLab(paletteRGB)
    IN  DitherFrom([pixels |-> imageData.data, float |-> Float32Array(imageData.data)],
                   imageData.width, imageData.height, 0, algorithm, strength,
                   paletteRGB, paletteLab).pixels


\* ------------------------------------------------------------ k-means

\* The default of kmeans' parameter maxIterations
MaxIterations == 20

\* a clamp that stops one short of data.length
ClampKShort(k, n) == IF k >= n THEN Max(n - 1, 0) ELSE k

\* if (k > data.length) k = data.length
ClampK(k, n) == IF k > n THEN n ELSE k

\* A point is a triple <<r, g, b>> of numbers.  A centroid is the exact fraction
\* s / n per channel: a seed or re-seed is a point over 1, a mean is the sum of
\* the assigned points over their count.
PointCentroid(p) == [s |-> p, n |-> 1]

\* centroids[i][c] !== newCentroids[i][c] on fractions
ChannelDiffers(a, b, c) == a.s[c] * b.n # b.s[c] * a.n

\* the squared distance of point d to centroid c is DistNum(d, c) / (c.n * c.n)
DistNum(d, c) ==
    (d[1] * c.n - c.s[1]) * (d[1] * c.n - c.s[1]) +
    (d[2] * c.n - c.s[2]) * (d[2] * c.n - c.s[2]) +
    (d[3] * c.n - c.s[3]) * (d[3] * c.n - c.s[3])

\* The inner loop of the assignment step for point d from centroid j (from 1) on.
\* min is [inf, num, den]: min_dist is Infinity or num / den.  best counts from 0
\* as in the code and starts at -1.
RECURSIVE BestCentroid(_, _, _, _, _)
BestCentroid(d, centroids, j, min, best) ==
    IF j > Len(centroids) THEN best
    ELSE LET c == centroids[j]
             num == DistNum(d, c)
             den == c.n * c.n
             less == min.inf \/ num * min.den < min.num * den
         IN  IF less
             THEN BestCentroid(d, centroids, j + 1, [inf |-> FALSE, num |-> num, den |-> den], j - 1)
             ELSE BestCentroid(d, centroids, j + 1, min, best)

\* the assignment step: assignments[i] for every point
KAssign(data, centroids) ==
    [i \in 1..Len(data) |->
        BestCentroid(data[i], centroids, 1, [inf |-> TRUE, num |-> 0, den |-> 1], -1)]

\* the clusters (counted from 1) the assignment leaves without points
EmptyClusters(assignments, k) ==
    {i \in 1..k : \A p \in 1..Len(assignments) : assignments[p] # i - 1}

\* the points data[Math.floor(Math.random() * data.length)] can be
Range(data) == {data[i] : i \in 1..Len(data)}

\* the update step without the division of the sums by the counts
KUpdateSums(data, assignments, k, reseed) ==
    [i \in 1..k |->
        LET members == {p \in 1..Len(data) : assignments[p] = i - 1}
            sum(c) == SumFn([p \in members |-> data[p][c]])
        IN  IF Cardinality(members) > 0
            THEN [s |-> <<sum(1), sum(2), sum(3)>>, n |-> 1]
            ELSE PointCentroid(reseed[i])]

\* the update step without the re-seeding: a cluster without points stays at
\* the zeros newCentroids starts with
KUpdateNoReseed(data, assignments, k, reseed) ==
    [i \in 1..k |->
        LET members == {p \in 1..Len(data) : assignments[p] = i - 1}
            sum(c) == SumFn([p \in members |-> data[p][c]])
        IN  IF Cardinality(members) > 0
            THEN [s |-> <<sum(1), sum(2), sum(3)>>, n |-> Cardinality(members)]
            ELSE [s |-> <<0, 0, 0>>, n |-> 1]]

\* the update step: sums and counts per cluster; a cluster without points is
\* re-seeded with the randomly drawn data point reseed[i]
KUpdate(data, assignments, k, reseed) ==
    [i \in 1..k |->
        LET members == {p \in 1..Len(data) : assignments[p] = i - 1}
            sum(c) == SumFn([p \in members |-> data[p][c]])
        IN  IF Cardinality(members) > 0
            THEN [s |-> <<sum(1), sum(2), sum(3)>>, n |-> Cardinality(members)]
            ELSE PointCentroid(reseed[i])]

\* the convergence test: some centroid differs from the new one in some channel
KChanged(centroids, newCentroids) ==
    \E i \in 1..Len(centroids) : \E c \in 1..3 :
        ChannelDiffers(centroids[i], newCentroids[i], c)

\* Math.round of a centroid channel
RoundCentroid(c, ch) == (2 * c.s[ch] + c.n) \div (2 * c.n)

\* centroid c as an RGB of rounded channels
CentroidRGB(c) == [r |-> RoundCentroid(c, 1), g |-> RoundCentroid(c, 2), b |-> RoundCentroid(c, 3)]

\* sequences of k distinct indices into 1..n: the draws of the seeding loop,
\* which splices each drawn point out of tempData
SeedChoices(n, k) ==
    {q \in [1..k -> 1..n] : \A a, b \in 1..k : a # b => q[a] # q[b]}

\* ------------------------------------------------------------ suggestion

\* maxPixels of suggestMissingColors
MaxPixels == 4096

\* a step from the quotient rounded down, and never less than one pixel
SampleStepFloor(pixels) == Max((Len(pixels) \div 4) \div MaxPixels, 1) * 4

\* step of the sampling loop: Math.ceil(totalPixels / maxPixels) * 4
SampleStep(pixels) == CeilDiv(Len(pixels) \div 4, MaxPixels) * 4

\* The sampling loop with alpha >= 128 as its test
RECURSIVE SamplePixelsFrom128(_, _, _)
SamplePixelsFrom128(pixels, i, step) ==
    IF i >= Len(pixels) THEN <<>>
    ELSE (IF At(pixels, i + 3) >= 128
          THEN <<<<At(pixels, i), At(pixels, i + 1), At(pixels, i + 2)>>>>
          ELSE <<>>) \o SamplePixelsFrom128(pixels, i + step, step)

\* What the iterations number lo .. hi of the sampling loop push, in order; the
\* iteration number v reads byte index i + v * step.  The range is split in
\* halves, which is the loop whatever the number of iterations
RECURSIVE SampleVisits(_, _, _, _, _)
SampleVisits(pixels, i, step, lo, hi) ==
    IF lo > hi THEN <<>>
    ELSE IF lo = hi
    THEN LET j == i + lo * step
         IN  IF At(pixels, j + 3) > 128
             THEN <<<<At(pixels, j), At(pixels, j + 1), At(pixels, j + 2)>>>>
             ELSE <<>>
    ELSE SampleVisits(pixels, i, step, lo, (lo + hi) \div 2)
            \o SampleVisits(pixels, i, step, (lo + hi) \div 2 + 1, hi)

\* The sampling loop of suggestMissingColors from byte index i on: it runs while
\* i < pixels.length, ceil((pixels.length - i) / step) times
SamplePixels(pixels, i, step) ==
    IF i >= Len(pixels) THEN <<>>
    ELSE SampleVisits(pixels, i, step, 0, CeilDiv(Len(pixels) - i, step) - 1)

\* the cluster count of suggestMissingColors
SuggestClusters == 128

\* pixelCounts[i]
PixelCount(assignments, i) == Cardinality({p \in 1..Len(assignments) : assignments[p] = i})

\* the smallest getDeltaE of lab to a palette colour
RECURSIVE MinDeltaE(_, _, _, _)
MinDeltaE(lab, paletteLAB, i, minDeltaE) ==
    IF i > Len(paletteLAB) THEN minDeltaE
    ELSE LET dist == getDeltaE(lab, paletteLAB[i])
         IN  MinDeltaE(lab, paletteLAB, i + 1, IF dist < minDeltaE THEN dist ELSE minDeltaE)

\* centroidErrors: one entry per centroid with count > 0, in centroid order
RECURSIVE CentroidErrors(_, _, _, _)
CentroidErrors(centroids, assignments, paletteLAB, i) ==
    IF i > Len(centroids) THEN <<>>
    ELSE LET count == PixelCount(assignments, i - 1)
             rgb   == CentroidRGB(centroids[i])
             minDeltaE == MinDeltaE(rgbToLab(ByteRGB(rgb.r, rgb.g, rgb.b)), paletteLAB, 1, Infinity)
             entry == [hex |-> rgbToHex(ByteRGB(rgb.r, rgb.g, rgb.b)), error |-> minDeltaE,
                       count |-> count, totalError |-> minDeltaE * count]
         IN  (IF count = 0 THEN <<>> ELSE <<entry>>)
             \o CentroidErrors(centroids, assignments, paletteLAB, i + 1)

\* an insertion that puts the smaller total error first
RECURSIVE InsertSortedAscending(_, _)
InsertSortedAscending(q, e) ==
    IF q = <<>> THEN <<e>>
    ELSE IF e.totalError < Head(q).totalError THEN <<e>> \o q
    ELSE <<Head(q)>> \o InsertSortedAscending(Tail(q), e)

\* e inserted into the sorted sequence q behind every entry that does not come
\* after it: Array.prototype.sort is stable, the comparator is b.totalError - a.totalError
RECURSIVE InsertSorted(_, _)
InsertSorted(q, e) ==
    IF q = <<>> THEN <<e>>
    ELSE IF e.totalError > Head(q).totalError THEN <<e>> \o q
    ELSE <<Head(q)>> \o InsertSorted(Tail(q), e)

RECURSIVE SortByTotalError(_)
SortByTotalError(q) ==
    IF q = <<>> THEN <<>>
    ELSE InsertSorted(SortByTotalError(SubSeq(q, 1, Len(q) - 1)), q[Len(q)])

\* Array.prototype.slice(0, end)
Slice0(q, end) ==
    LET e == IF end < 0 THEN Max(Len(q) + end, 0) ELSE Min(end, Len(q))
    IN  SubSeq(q, 1, e)

\* the tail of suggestMissingColors, after kmeans has returned
SuggestFromClusters(centroids, assignments, paletteHex, numToSuggest) ==
    LET paletteLAB == PaletteLab(PaletteRGB(paletteHex))
        sorted == SortByTotalError(CentroidErrors(centroids, assignments, paletteLAB, 1))
        top == Slice0(sorted, numToSuggest)
    IN  [i \in 1..Len(top) |-> top[i].hex]

\* ------------------------------------------------------------ colour modifiers

\* One channel triple through applyColorModifiers, in units of 1/100.
\* contrastFactor = 259 * (contrast + 255) / (255 * (259 - contrast)), fixed point.
ModifyRGB(r0, g0, b0, brightness, contrast, saturation) ==
    LET contrastFactor == RDiv(259 * (contrast + 255) * FP, 255 * (259 - contrast))
        r1 == IF brightness # 0 THEN (r0 + brightness) * 100 ELSE r0 * 100
        g1 == IF brightness # 0 THEN (g0 + brightness) * 100 ELSE g0 * 100
        b1 == IF brightness # 0 THEN (b0 + brightness) * 100 ELSE b0 * 100
        r2 == IF contrast # 0 THEN FMul(contrastFactor, r1 - 12800) + 12800 ELSE r1
        g2 == IF contrast # 0 THEN FMul(contrastFactor, g1 - 12800) + 12800 ELSE g1
        b2 == IF contrast # 0 THEN FMul(contrastFactor, b1 - 12800) + 12800 ELSE b1
        gray == RDiv(2989 * r2 + 5870 * g2 + 1140 * b2, 10000)
        satMult == 100 + saturation
        r3 == IF saturation # 0 THEN gray + RDiv((r2 - gray) * satMult, 100) ELSE r2
        g3 == IF saturation # 0 THEN gray + RDiv((g2 - gray) * satMult, 100) ELSE g2
        b3 == IF saturation # 0 THEN gray + RDiv((b2 - gray) * satMult, 100) ELSE b2
    IN  <<r3, g3, b3>>

\* applyColorModifiers with the brightness added to the alpha byte as well
applyColorModifiersWithAlpha(imageData, brightness, contrast, saturation) ==
    [width  |-> imageData.width,
     height |-> imageData.height,
     data   |-> [j \in 1..Len(imageData.data) |->
        LET i == ((j - 1) \div 4) * 4
            c == (j - 1) % 4
            m == ModifyRGB(At(imageData.data, i), At(imageData.data, i + 1),
                           At(imageData.data, i + 2), brightness, contrast, saturation)
        IN  IF c = 3 THEN ToUint8Clamp((imageData.data[j] + brightness) * FP)
            ELSE ToUint8Clamp(m[c + 1] * 100)]]

applyColorModifiers(imageData, brightness, contrast, saturation) ==
    [width  |-> imageData.width,
     height |-> imageData.height,
     data   |-> [j \in 1..Len(imageData.data) |->
        LET i == ((j - 1) \div 4) * 4
            c == (j - 1) % 4
            m == ModifyRGB(At(imageData.data, i), At(imageData.data, i + 1),
                           At(imageData.data, i + 2), brightness, contrast, saturation)
        IN  IF c = 3 THEN imageData.data[j] ELSE ToUint8Clamp(m[c + 1] * 100)]]


\* ------------------------------------------------------------ the compositor store

\* A layer keeps the fields that the operations modelled here read or write
\* (id, x, y, locked), a project keeps its layers and its viewport; the other
\* fields travel with the project unread, and the modified timestamp is left out.
NoLayer == "null"

DEFAULT_PROJECT_DATA == [layers |-> <<>>, viewport |-> [zoom |-> 100, panX |-> 0, panY |-> 0]]

DEFAULT_HISTORY == [past |-> <<>>, future |-> <<>>, maxSteps |-> 50]

DEFAULT_UI == [clipboardLayers |-> <<>>, isDraggingLayer |-> FALSE, dragLayerId |-> NoLayer, dragStartX |-> 0, dragStartY |-> 0, dragOffsetX |-> 0, dragOffsetY |-> 0]

\* the store as create() builds it, around a project
InitialStore(project) ==
    [project |-> project, selectedLayerIds |-> <<>>, isDirty |-> FALSE,
     history |-> DEFAULT_HISTORY, ui |-> DEFAULT_UI]

\* const { viewport, ...projectWithoutViewport } = project
ProjectWithoutViewport(project) == [f \in DOMAIN project \ {"viewport"} |-> project[f]]

\* { ...entry, viewport: viewport }
WithViewport(entry, viewport) ==
    [f \in DOMAIN entry \cup {"viewport"} |-> IF f = "viewport" THEN viewport ELSE entry[f]]

\* a push that never drops the oldest entry
NewPastUncapped(history, entry) == Append(history.past, entry)

\* newPast = [...past, entry]; if (newPast.length > maxSteps) newPast.shift()
NewPast(history, entry) ==
    LET newPast == Append(history.past, entry)
    IN  IF Len(newPast) > history.maxSteps THEN Tail(newPast) ELSE newPast

\* the layers with deltaX and deltaY added to the unlocked ones whose id is in ids
MovedLayers(layers, ids, deltaX, deltaY) ==
    [i \in DOMAIN layers |->
        IF layers[i].id \in ids /\ ~layers[i].locked
        THEN [layers[i] EXCEPT !.x = layers[i].x + deltaX, !.y = layers[i].y + deltaY]
        ELSE layers[i]]

addLayer(state, layer, id) ==
    [state EXCEPT
        !.project.layers = Append(state.project.layers,
            [id |-> id, x |-> layer.x, y |-> layer.y, locked |-> layer.locked]),
        !.isDirty = TRUE]

removeLayer(state, layerId) ==
    [state EXCEPT
        !.project.layers = SelectSeq(state.project.layers, LAMBDA l : l.id # layerId),
        !.selectedLayerIds = SelectSeq(state.selectedLayerIds, LAMBDA id : id # layerId),
        !.isDirty = TRUE]

updateLayer(state, layerId, updates) ==
    [state EXCEPT
        !.project.layers = [i \in DOMAIN state.project.layers |->
            LET layer == state.project.layers[i]
            IN  IF layer.id = layerId
                THEN [f \in DOMAIN layer |-> IF f \in DOMAIN updates THEN updates[f] ELSE layer[f]]
                ELSE layer],
        !.isDirty = TRUE]

\* moveLayer pushes the whole current project, viewport included
moveLayer(state, layerId, deltaX, deltaY) ==
    [state EXCEPT
        !.project.layers = MovedLayers(state.project.layers, {layerId}, deltaX, deltaY),
        !.history.past = NewPast(state.history, state.project),
        !.history.future = <<>>,
        !.isDirty = TRUE]

selectLayer(state, layerId, multiSelect) ==
    IF multiSelect
    THEN [state EXCEPT !.selectedLayerIds =
             IF layerId \in Range(state.selectedLayerIds)
             THEN SelectSeq(state.selectedLayerIds, LAMBDA id : id # layerId)
             ELSE Append(state.selectedLayerIds, layerId)]
    ELSE [state EXCEPT !.selectedLayerIds = <<layerId>>]

selectAllLayers(state) ==
    [state EXCEPT !.selectedLayerIds =
        [i \in DOMAIN state.project.layers |-> state.project.layers[i].id]]

deleteSelectedLayers(state) ==
    [state EXCEPT
        !.project.layers = SelectSeq(state.project.layers,
                                     LAMBDA l : l.id \notin Range(state.selectedLayerIds)),
        !.selectedLayerIds = <<>>,
        !.isDirty = TRUE]

startDraggingLayer(state, layerId, startX, startY) ==
    [state EXCEPT !.ui.isDraggingLayer = TRUE, !.ui.dragLayerId = layerId,
                  !.ui.dragStartX = startX, !.ui.dragStartY = startY]

updateDragPosition(state, currentX, currentY) ==
    IF ~state.ui.isDraggingLayer THEN state
    ELSE [state EXCEPT !.ui.dragOffsetX = currentX - state.ui.dragStartX,
                       !.ui.dragOffsetY = currentY - state.ui.dragStartY]

stopDraggingLayer(state) ==
    IF ~state.ui.isDraggingLayer \/ state.ui.dragLayerId = NoLayer THEN state
    ELSE LET layersToMove == IF state.ui.dragLayerId \in Range(state.selectedLayerIds)
                             THEN Range(state.selectedLayerIds)
                             ELSE {state.ui.dragLayerId}
             offsetX == state.ui.dragOffsetX
             offsetY == state.ui.dragOffsetY
             layersActuallyMoved == offsetX # 0 \/ offsetY # 0
             newState == [state EXCEPT
                 !.project.layers = MovedLayers(state.project.layers, layersToMove, offsetX, offsetY),
                 !.ui.isDraggingLayer = FALSE, !.ui.dragLayerId = NoLayer,
                 !.ui.dragOffsetX = 0, !.ui.dragOffsetY = 0,
                 !.isDirty = TRUE]
         IN  IF layersActuallyMoved
             THEN [newState EXCEPT
                      !.history.past = NewPast(state.history, ProjectWithoutViewport(state.project)),
                      !.history.future = <<>>]
             ELSE newState

pushHistory(state) ==
    [state EXCEPT
        !.history.past = NewPast(state.history, ProjectWithoutViewport(state.project)),
        !.history.future = <<>>]

undo(state) ==
    IF Len(state.history.past) = 0 THEN state
    ELSE LET previousProject == state.history.past[Len(state.history.past)]
             newPast == SubSeq(state.history.past, 1, Len(state.history.past) - 1)
             newFuture == <<ProjectWithoutViewport(state.project)>> \o state.history.future
         IN  [state EXCEPT
                 !.project = WithViewport(previousProject, state.project.viewport),
                 !.history.past = newPast,
                 !.history.future = newFuture]

\* redo appends to past without looking at maxSteps
redo(state) ==
    IF Len(state.history.future) = 0 THEN state
    ELSE LET nextProject == Head(state.history.future)
             newFuture == Tail(state.history.future)
             newPast == Append(state.history.past, ProjectWithoutViewport(state.project))
         IN  [state EXCEPT
                 !.project = WithViewport(nextProject, state.project.viewport),
                 !.history.past = newPast,
                 !.history.future = newFuture]

copySelectedLayers(state) ==
    [state EXCEPT !.ui.clipboardLayers =
        SelectSeq(state.project.layers, LAMBDA l : l.id \in Range(state.selectedLayerIds))]

\* ids[i] is the id that Date.now() and Math.random() give the i-th pasted layer
pasteSelectedLayers(state, ids) ==
    LET clipboard == state.ui.clipboardLayers
        pastedLayers == [i \in DOMAIN clipboard |->
                            [clipboard[i] EXCEPT !.id = ids[i], !.x = @ + 10, !.y = @ + 10]]
    IN  [state EXCEPT
            !.project.layers = state.project.layers \o pastedLayers,
            !.selectedLayerIds = [i \in DOMAIN pastedLayers |-> pastedLayers[i].id],
            !.isDirty = TRUE]

\* ------------------------------------------------------------ useAutoHistory

\* debounceTimerRef.current: no timer, or the one timer with the project it holds
NoTimer == <<>>

\* The effect of useAutoHistory, run when the component renders with a new
\* project: the pending timer is cleared, and a project that differs from
\* lastProjectRef.current starts a new one, which holds that project
useAutoHistoryEffect(hook, project) ==
    IF project # hook.lastProjectRef
    THEN [hook EXCEPT !.timer = <<project>>]
    ELSE [hook EXCEPT !.timer = NoTimer]

\* ------------------------------------------------------------ inputs

\* colour strings
Hex(a, b, c, d, e, f) == <<"#", a, b, c, d, e, f>>
Black == Hex("0", "0", "0", "0", "0", "0")
White == Hex("F", "F", "F", "F", "F", "F")
Gray  == Hex("8", "0", "8", "0", "8", "0")
Red   == <<"f", "f", "0", "0", "0", "0">>
Short == <<"#", "F", "F", "F">>

\* palettes: two colours; and a palette with a colour written without "#" in
\* lower case, a repeated entry and a string hexToRgb does not parse
Palettes == {<<Black, White>>, <<Red, Gray, Gray, Short>>}

\* pixels <<r, g, b, a>>: opaque, alpha exactly at the cutoff, alpha just below it
OpaquePixel == <<200, 30, 30, 255>>
CutoffPixel == <<100, 100, 100, 128>>
ClearPixel  == <<10, 240, 90, 127>>
Pixels == {OpaquePixel, CutoffPixel, ClearPixel}

\* the ImageData of width * height pixels ps[1], ps[2], ... in row-major order
MakeImage(width, height, ps) ==
    [width  |-> width,
     height |-> height,
     data   |-> [j \in 1..(width * height * 4) |-> ps[((j - 1) \div 4) + 1][((j - 1) % 4) + 1]]]

\* every ImageData of at most maxPixels pixels (and at least one) over alphabet
Images(maxPixels, alphabet) ==
    UNION {{MakeImage(d[1], d[2], ps) : ps \in [1..(d[1] * d[2]) -> alphabet]} :
             d \in {e \in (1..maxPixels) \X (1..maxPixels) : e[1] * e[2] <= maxPixels}}

\* the images of one row of at most maxPixels pixels
RowImages(maxPixels, alphabet) ==
    UNION {{MakeImage(w, 1, ps) : ps \in [1..w -> alphabet]} : w \in 1..maxPixels}

NoImage == [width |-> 0, height |-> 0, data |-> <<>>]


\* ------------------------------------------------------------ state

VARIABLES
    pc,                  \* where the worker is
    caller,              \* who runs the current stage: "process", "suggest" or "direct"
    request,             \* e.data of the message being handled: [type, imageData, settings]
    processedImageData,  \* the handler's processedImageData
    resizedImageData,    \* the handler's resizedImageData; applyDithering's imageData
    paletteRGB,          \* applyDithering's paletteRGB
    paletteLab,          \* applyDithering's paletteLab
    pixelDataFloat,      \* applyDithering's pixelDataFloat
    ditherPos,           \* the number of pixels applyDithering's loop has done
    kmData,              \* kmeans' data
    kmK,                 \* kmeans' k
    centroids,           \* kmeans' centroids
    assignments,         \* kmeans' assignments
    iter,                \* kmeans' iter
    suggestions,         \* the value suggestMissingColors returns
    callArg,             \* the argument of a function called on its own
    callResult,          \* what that function returned
    posted,              \* the messages posted for the request, in order
    objects,             \* the ImageData object behind each raster reference of the handler
    store,               \* the state of useCompositorStore: project, selection, history, ui
    autoHistory,         \* useAutoHistory: lastProjectRef and the pending debounce timer
    scenario             \* the user's position in a session and what they saw before editing

vars == <<pc, caller, request, processedImageData, resizedImageData, paletteRGB, paletteLab,
          pixelDataFloat, ditherPos, kmData, kmK, centroids, assignments, iter, suggestions, callArg, callResult,
          posted, objects, store, autoHistory, scenario>>

storeVars == <<store, autoHistory, scenario>>
ditherVars == <<paletteRGB, paletteLab, pixelDataFloat, ditherPos>>
kmVars == <<kmData, kmK, centroids, assignments, iter>>
imageVars == <<processedImageData, resizedImageData>>
callVars == <<callArg, callResult>>

\* the settings of a request; hasPalette is FALSE when settings.palette is absent
Settings(targetWidth, targetHeight, resamplingMethod, ditherMethod, ditherStrength, hasPalette, palette, useKmeans, kmeansColors, modifiers, numSuggestions) ==
    [targetWidth |-> targetWidth, targetHeight |-> targetHeight,
     resamplingMethod |-> resamplingMethod,
     ditherMethod |-> ditherMethod, ditherStrength |-> ditherStrength,
     hasPalette |-> hasPalette, palette |-> palette,
     useKmeans |-> useKmeans, kmeansColors |-> kmeansColors,
     brightness |-> modifiers[1], contrast |-> modifiers[2], saturation |-> modifiers[3],
     numSuggestions |-> numSuggestions]

NoSettings == Settings(1, 1, "nearest", "none", 0, FALSE, <<>>, FALSE, 0, <<0, 0, 0>>, 0)

NoRequest == [type |-> "none", imageData |-> NoImage, settings |-> NoSettings]

\* The ImageData objects, named by where they are made: the raster of the
\* message, the `new ImageData` of applyColorModifiers and the `new ImageData` of
\* the resamplers.  Two references with the same object are the same raster.
NoObject == "none"
NoObjects == [imageData |-> NoObject, processedImageData |-> NoObject, resizedImageData |-> NoObject]

\* what the reference `name`, holding `current`, holds after `written` has been
\* written through resizedImageData
SeenThrough(name, current, written) ==
    IF objects[name] # NoObject /\ objects[name] = objects.resizedImageData THEN written ELSE current

\* the state before any message
Idle ==
    /\ pc = "idle"
    /\ caller = "none"
    /\ request = NoRequest
    /\ processedImageData = NoImage
    /\ resizedImageData = NoImage
    /\ paletteRGB = <<>>
    /\ paletteLab = <<>>
    /\ pixelDataFloat = <<>>
    /\ ditherPos = 0
    /\ kmData = <<>>
    /\ kmK = 0
    /\ centroids = <<>>
    /\ assignments = <<>>
    /\ iter = 0
    /\ suggestions = <<>>
    /\ callArg = <<>>
    /\ callResult = <<>>
    /\ posted = <<>>
    /\ objects = NoObjects

\* the compositor before the user has done anything
StoreIdle ==
    /\ store = InitialStore(DEFAULT_PROJECT_DATA)
    /\ autoHistory = [lastProjectRef |-> DEFAULT_PROJECT_DATA, timer |-> NoTimer]
    /\ scenario = [step |-> "start", ops |-> 0, before |-> DEFAULT_PROJECT_DATA]

\* ------------------------------------------------------------ kmeans

\* kmeans up to the loop: k is clamped to data.length, k = 0 resolves with empty
\* results, otherwise k distinct points are drawn as centroids
KmeansStart ==
    /\ pc = "kmeans"
    /\ LET k == ClampK(kmK, Len(kmData))
       IN  /\ kmK' = k
           /\ IF k = 0
              THEN /\ centroids' = <<>>
                   /\ assignments' = <<>>
                   /\ pc' = "kmeans_resolved"
              ELSE /\ \E q \in SeedChoices(Len(kmData), k) :
                         centroids' = [i \in 1..k |-> PointCentroid(kmData[q[i]])]
                   /\ assignments' = <<>>
                   /\ pc' = "kmeans_loop"
    /\ iter' = 0
    /\ UNCHANGED <<caller, request, imageVars, ditherVars, kmData, suggestions, callVars, posted>>
    /\ UNCHANGED <<objects, storeVars>>

\* One iteration of the loop of kmeans without `if (!changed) break`
KmeansRoundNoBreak ==
    /\ pc = "kmeans_loop"
    /\ iter < MaxIterations
    /\ \E newAssignments \in {KAssign(kmData, centroids)} :
       \E reseed \in [EmptyClusters(newAssignments, kmK) -> Range(kmData)] :
       \E newCentroids \in {KUpdate(kmData, newAssignments, kmK, reseed)} :
          /\ assignments' = newAssignments
          /\ centroids' = newCentroids
          /\ iter' = iter + 1
          /\ pc' = IF iter + 1 < MaxIterations THEN "kmeans_loop" ELSE "kmeans_resolved"
    /\ UNCHANGED <<caller, request, imageVars, ditherVars, kmData, kmK, suggestions, callVars, posted>>
    /\ UNCHANGED <<objects, storeVars>>

\* One iteration of the loop of kmeans, entered with iter < maxIterations
KmeansRound ==
    /\ pc = "kmeans_loop"
    /\ iter < MaxIterations
    /\ \E newAssignments \in {KAssign(kmData, centroids)} :
       \E reseed \in [EmptyClusters(newAssignments, kmK) -> Range(kmData)] :
       \E newCentroids \in {KUpdate(kmData, newAssignments, kmK, reseed)} :
          LET changed == KChanged(centroids, newCentroids)
          IN  /\ assignments' = newAssignments
              /\ centroids' = newCentroids
              /\ iter' = IF changed THEN iter + 1 ELSE iter
              /\ pc' = IF changed /\ iter + 1 < MaxIterations
                       THEN "kmeans_loop" ELSE "kmeans_resolved"
    /\ UNCHANGED <<caller, request, imageVars, ditherVars, kmData, kmK, suggestions, callVars, posted>>
    /\ UNCHANGED <<objects, storeVars>>


\* ------------------------------------------------------------ applyDithering

\* applyDithering up to its loops: the palette is parsed and converted, and the
\* error-diffusion branch copies the pixels into pixelDataFloat
DitherBegin ==
    /\ pc = "applyDithering"
    /\ paletteRGB' = PaletteRGB(request.settings.palette)
    /\ paletteLab' = PaletteLab(PaletteRGB(request.settings.palette))
    /\ pixelDataFloat' = IF request.settings.ditherMethod \in DOMAIN ditherMatrices
                         THEN <<>>
                         ELSE Float32Array(resizedImageData.data)
    /\ ditherPos' = 0
    /\ pc' = "dither_loop"
    /\ UNCHANGED <<caller, request, imageVars, kmVars, suggestions, callVars, posted>>
    /\ UNCHANGED <<objects, storeVars>>

\* One iteration of the loop over the pixels, in row-major order
DitherStep ==
    /\ pc = "dither_loop"
    /\ ditherPos < resizedImageData.width * resizedImageData.height
    /\ LET st == DitherPixel([pixels |-> resizedImageData.data, float |-> pixelDataFloat],
                             resizedImageData.width, resizedImageData.height, ditherPos,
                             request.settings.ditherMethod, request.settings.ditherStrength,
                             paletteRGB, paletteLab)
       IN  /\ resizedImageData' = [resizedImageData EXCEPT !.data = st.pixels]
           /\ pixelDataFloat' = st.float
    /\ processedImageData' = SeenThrough("processedImageData", processedImageData, resizedImageData')
    /\ request' = [request EXCEPT !.imageData = SeenThrough("imageData", @, resizedImageData')]
    /\ ditherPos' = ditherPos + 1
    /\ UNCHANGED <<pc, caller, paletteRGB, paletteLab, kmVars, suggestions, callVars, posted>>
    /\ UNCHANGED <<objects, storeVars>>

\* The loop is over: applyDithering returns
DitherReturn ==
    /\ pc = "dither_loop"
    /\ ditherPos >= resizedImageData.width * resizedImageData.height
    /\ pc' = IF caller = "process" THEN "post" ELSE "returned"
    /\ UNCHANGED <<caller, request, imageVars, ditherVars, kmVars, suggestions, callVars, posted>>
    /\ UNCHANGED <<objects, storeVars>>

\* ------------------------------------------------------------ self.onmessage

\* the resampler the handler picks for resamplingMethod
Resample(resamplingMethod, img, width, height) ==
    IF resamplingMethod = "lanczos" THEN resampleLanczos(img, width, height)
    ELSE IF resamplingMethod = "bilinear" THEN resampleBilinear(img, width, height)
    ELSE resampleNearest(img, width, height)

\* the points <<r, g, b>> of the pixels with alpha > 128, in order
RECURSIVE OpaquePoints(_, _)
OpaquePoints(pixels, i) ==
    IF i >= Len(pixels) THEN <<>>
    ELSE (IF At(pixels, i + 3) > 128
          THEN <<<<At(pixels, i), At(pixels, i + 1), At(pixels, i + 2)>>>>
          ELSE <<>>) \o OpaquePoints(pixels, i + 4)

\* the recolouring loop after kmeans: every pixel with alpha > 128 takes the
\* closest rounded centroid
RecolorPixels(pixels, cents) ==
    LET rgb == [i \in 1..Len(cents) |-> CentroidRGB(cents[i])]
        lab == PaletteLab(rgb)
    IN  [j \in 1..Len(pixels) |->
            LET i == ((j - 1) \div 4) * 4
                c == (j - 1) % 4
                closest == findClosestColor(
                    ByteRGB(At(pixels, i), At(pixels, i + 1), At(pixels, i + 2)), rgb, lab)
            IN  IF At(pixels, i + 3) > 128 /\ c < 3
                THEN IF c = 0 THEN closest.r ELSE IF c = 1 THEN closest.g ELSE closest.b
                ELSE pixels[j]]

Message(type, imageData, sugg, message) ==
    [type |-> type, imageData |-> imageData, suggestions |-> sugg, message |-> message]

\* A message arrives: the handler starts on it
Receive(req) ==
    /\ pc = "idle"
    /\ request' = req
    /\ caller' = IF req.type = "suggest" THEN "suggest" ELSE "process"
    /\ pc' = IF req.type = "suggest" THEN "suggest" ELSE "modifiers"
    /\ processedImageData' = NoImage
    /\ resizedImageData' = NoImage
    /\ paletteRGB' = <<>>
    /\ paletteLab' = <<>>
    /\ pixelDataFloat' = <<>>
    /\ ditherPos' = 0
    /\ kmData' = <<>>
    /\ kmK' = 0
    /\ centroids' = <<>>
    /\ assignments' = <<>>
    /\ iter' = 0
    /\ suggestions' = <<>>
    /\ posted' = <<>>
    /\ objects' = [NoObjects EXCEPT !.imageData = "message"]
    /\ UNCHANGED callVars
    /\ UNCHANGED storeVars

\* 0. Apply Color Modifiers
StageModifiers ==
    /\ pc = "modifiers"
    /\ LET t == request.settings
       IN  /\ processedImageData' =
              IF t.brightness # 0 \/ t.contrast # 0 \/ t.saturation # 0
              THEN applyColorModifiers(request.imageData, t.brightness, t.contrast, t.saturation)
              ELSE request.imageData
           /\ objects' = [objects EXCEPT !.processedImageData =
                             IF t.brightness # 0 \/ t.contrast # 0 \/ t.saturation # 0
                             THEN "applyColorModifiers" ELSE objects.imageData]
    /\ pc' = "resize"
    /\ UNCHANGED <<caller, request, resizedImageData, ditherVars, kmVars, suggestions, callVars, posted>>
    /\ UNCHANGED storeVars

\* 1. Resize, handed the request's imageData instead of processedImageData
StageResizeOfInput ==
    /\ pc = "resize"
    /\ LET t == request.settings
       IN  IF ImageDataThrows(t.targetWidth, t.targetHeight)
           THEN /\ pc' = "catch"
                /\ UNCHANGED <<resizedImageData, objects>>
           ELSE /\ resizedImageData' = Resample(t.resamplingMethod, request.imageData,
                                                t.targetWidth, t.targetHeight)
                /\ objects' = [objects EXCEPT !.resizedImageData = "resample"]
                /\ pc' = "cluster"
    /\ UNCHANGED <<caller, request, processedImageData, ditherVars, kmVars, suggestions, callVars, posted>>
    /\ UNCHANGED storeVars

\* 1. Resize with a resampler that hands back its source raster when the target
\* size is the size of the source
StageResizeReusing ==
    /\ pc = "resize"
    /\ LET t == request.settings
       IN  IF ImageDataThrows(t.targetWidth, t.targetHeight)
           THEN /\ pc' = "catch"
                /\ UNCHANGED <<resizedImageData, objects>>
           ELSE /\ resizedImageData' = Resample(t.resamplingMethod, processedImageData,
                                                t.targetWidth, t.targetHeight)
                /\ objects' = [objects EXCEPT !.resizedImageData =
                                  IF t.targetWidth = processedImageData.width
                                     /\ t.targetHeight = processedImageData.height
                                  THEN objects.processedImageData ELSE "resample"]
                /\ pc' = "cluster"
    /\ UNCHANGED <<caller, request, processedImageData, ditherVars, kmVars, suggestions, callVars, posted>>
    /\ UNCHANGED storeVars

\* 1. Resize; new ImageData throws on a zero dimension and the handler's catch posts the error
StageResize ==
    /\ pc = "resize"
    /\ LET t == request.settings
       IN  IF ImageDataThrows(t.targetWidth, t.targetHeight)
           THEN /\ pc' = "catch"
                /\ UNCHANGED <<resizedImageData, objects>>
           ELSE /\ resizedImageData' = Resample(t.resamplingMethod, processedImageData,
                                                t.targetWidth, t.targetHeight)
                /\ objects' = [objects EXCEPT !.resizedImageData = "resample"]
                /\ pc' = "cluster"
    /\ UNCHANGED <<caller, request, processedImageData, ditherVars, kmVars, suggestions, callVars, posted>>
    /\ UNCHANGED storeVars

\* 2. (Optional) K-Means color clustering: up to the call of kmeans
StageKmeans ==
    /\ pc = "cluster"
    /\ LET t == request.settings
           pixelArray == OpaquePoints(resizedImageData.data, 0)
       IN  IF t.useKmeans /\ t.kmeansColors > 0 /\ Len(pixelArray) > 0
           THEN /\ kmData' = pixelArray
                /\ kmK' = Min(t.kmeansColors, Len(pixelArray))
                /\ pc' = "kmeans"
           ELSE /\ UNCHANGED <<kmData, kmK>>
                /\ pc' = "dither"
    /\ UNCHANGED <<caller, request, imageVars, ditherVars, centroids, assignments, iter,
                   suggestions, callVars, posted>>
    /\ UNCHANGED <<objects, storeVars>>

\* 2, after kmeans has resolved: the pixels are recoloured
StageRecolor ==
    /\ pc = "kmeans_resolved"
    /\ caller = "process"
    /\ resizedImageData' =
          [resizedImageData EXCEPT !.data = RecolorPixels(resizedImageData.data, centroids)]
    /\ processedImageData' = SeenThrough("processedImageData", processedImageData, resizedImageData')
    /\ request' = [request EXCEPT !.imageData = SeenThrough("imageData", @, resizedImageData')]
    /\ pc' = "dither"
    /\ UNCHANGED <<caller, ditherVars, kmVars, suggestions, callVars, posted>>
    /\ UNCHANGED <<objects, storeVars>>

\* 3. Dither: only with a palette that has a colour
StageDither ==
    /\ pc = "dither"
    /\ pc' = IF request.settings.hasPalette /\ Len(request.settings.palette) > 0
             THEN "applyDithering" ELSE "post"
    /\ UNCHANGED <<caller, request, imageVars, ditherVars, kmVars, suggestions, callVars, posted>>
    /\ UNCHANGED <<objects, storeVars>>

PostSuccess ==
    /\ pc = "post"
    /\ posted' = Append(posted, Message("success", resizedImageData, <<>>, ""))
    /\ pc' = "done"
    /\ UNCHANGED <<caller, request, imageVars, ditherVars, kmVars, suggestions, callVars>>
    /\ UNCHANGED <<objects, storeVars>>

\* a catch clause that swallows the error without posting anything
PostErrorSilent ==
    /\ pc = "catch"
    /\ pc' = "done"
    /\ UNCHANGED <<caller, request, imageVars, ditherVars, kmVars, suggestions, callVars, posted>>
    /\ UNCHANGED <<objects, storeVars>>

\* the catch clauses of the handler
PostError ==
    /\ pc = "catch"
    /\ posted' = Append(posted, Message("error", NoImage, <<>>, "error.message"))
    /\ pc' = "done"
    /\ UNCHANGED <<caller, request, imageVars, ditherVars, kmVars, suggestions, callVars>>
    /\ UNCHANGED <<objects, storeVars>>

\* numSuggestions || 5
SuggestDefault == 5
NumToSuggest(numSuggestions) == IF numSuggestions = 0 THEN SuggestDefault ELSE numSuggestions

\* suggestMissingColors up to the call of kmeans.  An absent palette throws at
\* paletteHex.length; an empty palette and an empty sample return [].
SuggestBegin ==
    /\ pc = "suggest"
    /\ LET t == request.settings
           pixels == request.imageData.data
           pixelArray == SamplePixels(pixels, 0, SampleStep(pixels))
       IN  IF ~t.hasPalette
           THEN /\ pc' = "catch"
                /\ UNCHANGED <<kmData, kmK, suggestions>>
           ELSE IF Len(t.palette) = 0 \/ Len(pixelArray) = 0
           THEN /\ suggestions' = <<>>
                /\ pc' = "post_suggestions"
                /\ UNCHANGED <<kmData, kmK>>
           ELSE /\ kmData' = pixelArray
                /\ kmK' = Min(SuggestClusters, Len(pixelArray))
                /\ pc' = "kmeans"
                /\ UNCHANGED suggestions
    /\ UNCHANGED <<caller, request, imageVars, ditherVars, centroids, assignments, iter, callVars, posted>>
    /\ UNCHANGED <<objects, storeVars>>

\* suggestMissingColors after kmeans has resolved
SuggestFinish ==
    /\ pc = "kmeans_resolved"
    /\ caller = "suggest"
    /\ suggestions' = SuggestFromClusters(centroids, assignments, request.settings.palette,
                                          NumToSuggest(request.settings.numSuggestions))
    /\ pc' = "post_suggestions"
    /\ UNCHANGED <<caller, request, imageVars, ditherVars, kmVars, callVars, posted>>
    /\ UNCHANGED <<objects, storeVars>>

PostSuggestions ==
    /\ pc = "post_suggestions"
    /\ posted' = Append(posted, Message("suggestions", NoImage, suggestions, ""))
    /\ pc' = "done"
    /\ UNCHANGED <<caller, request, imageVars, ditherVars, kmVars, suggestions, callVars>>
    /\ UNCHANGED <<objects, storeVars>>


\* ------------------------------------------------------------ the worker

\* bounds of the requests
MaxWorkerPixels == 2
MaxSuggest == 2

\* target widths: 0 makes new ImageData throw
TargetWidths == {0, 1, 2}

WorkerPixels == {OpaquePixel, ClearPixel}

ProcessRequests ==
    {[type |-> "process", imageData |-> img,
      settings |-> Settings(tw, th, rm, dm, 100, pal[1], pal[2], km[1], km[2], mod, 0)] :
        img \in RowImages(MaxWorkerPixels, WorkerPixels),
        tw \in TargetWidths, th \in {1},
        rm \in {"nearest", "bilinear", "lanczos"},
        dm \in {"none", "bayer-4x4", "floyd-steinberg"},
        pal \in {<<FALSE, <<>>>>, <<TRUE, <<>>>>, <<TRUE, <<Black, White>>>>},
        km \in {<<FALSE, 2>>, <<TRUE, 2>>},
        mod \in {<<0, 0, 0>>, <<10, -20, 30>>}}

SuggestRequests ==
    {[type |-> "suggest", imageData |-> img,
      settings |-> Settings(1, 1, "nearest", "none", 0, pal[1], pal[2], FALSE, 0, <<0, 0, 0>>, n)] :
        img \in RowImages(MaxWorkerPixels, Pixels),
        pal \in {<<FALSE, <<>>>>, <<TRUE, <<>>>>, <<TRUE, <<Black, White>>>>,
                 <<TRUE, <<Gray, Gray, Short>>>>},
        n \in 0..MaxSuggest}

\* The handler has posted its answer and returns: its locals are gone, and the
\* worker waits for the next message
HandlerReturn ==
    /\ pc = "done"
    /\ pc' = "idle"
    /\ caller' = "none"
    /\ request' = NoRequest
    /\ processedImageData' = NoImage
    /\ resizedImageData' = NoImage
    /\ paletteRGB' = <<>>
    /\ paletteLab' = <<>>
    /\ pixelDataFloat' = <<>>
    /\ ditherPos' = 0
    /\ kmData' = <<>>
    /\ kmK' = 0
    /\ centroids' = <<>>
    /\ assignments' = <<>>
    /\ iter' = 0
    /\ suggestions' = <<>>
    /\ posted' = <<>>
    /\ objects' = NoObjects
    /\ UNCHANGED callVars
    /\ UNCHANGED storeVars

Init == Idle /\ StoreIdle

Next ==
    \/ \E req \in ProcessRequests \cup SuggestRequests : Receive(req)
    \/ StageModifiers
    \/ StageResize
    \/ StageKmeans
    \/ KmeansStart
    \/ KmeansRound
    \/ StageRecolor
    \/ StageDither
    \/ DitherBegin
    \/ DitherStep
    \/ DitherReturn
    \/ PostSuccess
    \/ PostError
    \/ SuggestBegin
    \/ SuggestFinish
    \/ PostSuggestions
    \/ HandlerReturn

Spec == Init /\ [][Next]_vars

\* ------------------------------------------------------------ the worker under the event loop

\* bound of the rasters
MaxAnswerPixels == 2

\* requests whose stages return and requests whose stages throw
AnswerRequests ==
    {[type |-> "process", imageData |-> img,
      settings |-> Settings(tw, 1, "nearest", dm, 100, pal[1], pal[2], km, 2, <<0, 0, 0>>, 0)] :
        img \in RowImages(MaxAnswerPixels, WorkerPixels),
        tw \in TargetWidths,
        dm \in {"none", "floyd-steinberg"},
        pal \in {<<FALSE, <<>>>>, <<TRUE, <<Black, White>>>>},
        km \in BOOLEAN}
    \cup
    {[type |-> "suggest", imageData |-> img,
      settings |-> Settings(1, 1, "nearest", "none", 0, pal[1], pal[2], FALSE, 0, <<0, 0, 0>>, n)] :
        img \in RowImages(MaxAnswerPixels, WorkerPixels),
        pal \in {<<FALSE, <<>>>>, <<TRUE, <<>>>>, <<TRUE, <<Black, White>>>>},
        n \in {0, 2}}

\* the steps of a handler that has started
HandlerStep ==
    \/ StageModifiers
    \/ StageResize
    \/ StageKmeans
    \/ KmeansStart
    \/ KmeansRound
    \/ StageRecolor
    \/ StageDither
    \/ DitherBegin
    \/ DitherStep
    \/ DitherReturn
    \/ PostSuccess
    \/ PostError
    \/ SuggestBegin
    \/ SuggestFinish
    \/ PostSuggestions
    \/ HandlerReturn

NextAnswer ==
    \/ \E req \in AnswerRequests : Receive(req)
    \/ HandlerStep

\* the guards of the steps of the handler: some step of HandlerStep can be taken
HandlerEnabled ==
    \/ pc \in {"modifiers", "resize", "cluster", "kmeans", "dither", "applyDithering",
               "post", "catch", "suggest", "post_suggestions", "done"}
    \/ pc = "kmeans_loop" /\ iter < MaxIterations
    \/ pc = "kmeans_resolved" /\ caller \in {"process", "suggest"}
    \/ pc = "dither_loop"

\* a handler that has started runs on and its awaited promise is resolved: weak
\* fairness of HandlerStep, its enabling condition written out
SpecAnswer ==
    Init /\ [][NextAnswer]_vars /\ ([]<>(~HandlerEnabled) \/ []<><<HandlerStep>>_vars)

\* ------------------------------------------------------------ kmeans, called on its own

MaxPoints == 3
MaxK == 3

Points == {<<255, 255, 255>>, <<10, 200, 30>>}

PointSeqs == UNION {[1..n -> Points] : n \in 0..MaxPoints}

InitKmeans ==
    /\ pc = "kmeans"
    /\ caller = "direct"
    /\ request = NoRequest
    /\ processedImageData = NoImage
    /\ resizedImageData = NoImage
    /\ paletteRGB = <<>>
    /\ paletteLab = <<>>
    /\ pixelDataFloat = <<>>
    /\ ditherPos = 0
    /\ kmData \in PointSeqs
    /\ kmK \in 0..MaxK
    /\ centroids = <<>>
    /\ assignments = <<>>
    /\ iter = 0
    /\ suggestions = <<>>
    /\ callArg = [data |-> kmData, k |-> kmK]
    /\ callResult = <<>>
    /\ posted = <<>>
    /\ objects = NoObjects
    /\ StoreIdle

NextKmeans == KmeansStart \/ KmeansRound

SpecKmeans == InitKmeans /\ [][NextKmeans]_vars

\* kmeans is synchronous code: once called it runs on until it resolves
SpecKmeansFair == InitKmeans /\ [][NextKmeans]_vars /\ WF_vars(NextKmeans)

\* ------------------------------------------------------------ kmeans, on points that keep it going for 20 rounds

\* two points of one colour, so that a cluster can stay empty and be drawn anew
\* in every round, and two dark points that share a cluster
CapData == <<<<255, 255, 255>>, <<10, 200, 30>>, <<255, 255, 255>>, <<0, 0, 0>>, <<0, 0, 20>>>>

InitKmeansCap ==
    /\ pc = "kmeans"
    /\ caller = "direct"
    /\ request = NoRequest
    /\ processedImageData = NoImage
    /\ resizedImageData = NoImage
    /\ paletteRGB = <<>>
    /\ paletteLab = <<>>
    /\ pixelDataFloat = <<>>
    /\ ditherPos = 0
    /\ kmData = CapData
    /\ kmK \in {3, 4}
    /\ centroids = <<>>
    /\ assignments = <<>>
    /\ iter = 0
    /\ suggestions = <<>>
    /\ callArg = [data |-> kmData, k |-> kmK]
    /\ callResult = <<>>
    /\ posted = <<>>
    /\ objects = NoObjects
    /\ StoreIdle

NextKmeansCap == KmeansStart \/ KmeansRound

SpecKmeansCap == InitKmeansCap /\ [][NextKmeansCap]_vars

\* ------------------------------------------------------------ applyDithering, called on its own

MaxDitherPixels == 3

Algorithms == DOMAIN ditherMatrices \cup DOMAIN errorKernels \cup {"none"}

Strengths == {0, 100}

InitDither ==
    /\ pc = "applyDithering"
    /\ caller = "direct"
    /\ \E img \in Images(MaxDitherPixels, Pixels), pal \in Palettes, dm \in Algorithms,
          st \in Strengths :
          /\ request = [type |-> "process", imageData |-> img,
                        settings |-> Settings(img.width, img.height, "nearest", dm, st, TRUE, pal,
                                              FALSE, 0, <<0, 0, 0>>, 0)]
          /\ resizedImageData = img
    /\ processedImageData = NoImage
    /\ paletteRGB = <<>>
    /\ paletteLab = <<>>
    /\ pixelDataFloat = <<>>
    /\ ditherPos = 0
    /\ kmData = <<>>
    /\ kmK = 0
    /\ centroids = <<>>
    /\ assignments = <<>>
    /\ iter = 0
    /\ suggestions = <<>>
    /\ callArg = <<>>
    /\ callResult = <<>>
    /\ posted = <<>>
    /\ objects = NoObjects
    /\ StoreIdle

NextDither == DitherBegin \/ DitherStep \/ DitherReturn

SpecDither == InitDither /\ [][NextDither]_vars

\* ------------------------------------------------------------ error diffusion, on rasters three pixels wide

MaxDiffuseRows == 2

\* every ImageData three pixels wide and 1..maxRows rows high over alphabet: in
\* the middle column every neighbour of the kernels at dx = -1, 0, 1 is inside
GridImages(maxRows, alphabet) ==
    UNION {{MakeImage(3, h, ps) : ps \in [1..(3 * h) -> alphabet]} : h \in 1..maxRows}

DiffusePixels == {OpaquePixel, ClearPixel}

DiffuseStrengths == {50, 100}

InitDiffuse ==
    /\ pc = "applyDithering"
    /\ caller = "direct"
    /\ \E img \in GridImages(MaxDiffuseRows, DiffusePixels), dm \in DOMAIN errorKernels :
       \E st \in (IF dm \in {"floyd-steinberg", "sierra-lite"} THEN DiffuseStrengths ELSE {100}) :
          /\ request = [type |-> "process", imageData |-> img,
                        settings |-> Settings(img.width, img.height, "nearest", dm, st, TRUE,
                                              <<Black, White>>, FALSE, 0, <<0, 0, 0>>, 0)]
          /\ resizedImageData = img
    /\ processedImageData = NoImage
    /\ paletteRGB = <<>>
    /\ paletteLab = <<>>
    /\ pixelDataFloat = <<>>
    /\ ditherPos = 0
    /\ kmData = <<>>
    /\ kmK = 0
    /\ centroids = <<>>
    /\ assignments = <<>>
    /\ iter = 0
    /\ suggestions = <<>>
    /\ callArg = <<>>
    /\ callResult = <<>>
    /\ posted = <<>>
    /\ objects = NoObjects
    /\ StoreIdle

NextDiffuse == DitherBegin \/ DitherStep \/ DitherReturn

SpecDiffuse == InitDiffuse /\ [][NextDiffuse]_vars

\* ------------------------------------------------------------ ordered dithering, on rasters longer than a matrix

\* the long side of the rasters: one more than the size of the 4 x 4 matrices
MaxOrderedSide == 5

\* a row, a column and a square
OrderedImages ==
    UNION {{MakeImage(d[1], d[2], ps) : ps \in [1..(d[1] * d[2]) -> {CutoffPixel, ClearPixel}]} :
             d \in {<<MaxOrderedSide, 1>>, <<1, MaxOrderedSide>>, <<2, 2>>}}

OrderedStrengths == {50, 100}

InitOrdered ==
    /\ pc = "applyDithering"
    /\ caller = "direct"
    /\ \E img \in OrderedImages, pal \in {<<Black, White>>}, dm \in DOMAIN ditherMatrices,
          st \in OrderedStrengths :
          /\ request = [type |-> "process", imageData |-> img,
                        settings |-> Settings(img.width, img.height, "nearest", dm, st, TRUE, pal,
                                              FALSE, 0, <<0, 0, 0>>, 0)]
          /\ resizedImageData = img
    /\ processedImageData = NoImage
    /\ paletteRGB = <<>>
    /\ paletteLab = <<>>
    /\ pixelDataFloat = <<>>
    /\ ditherPos = 0
    /\ kmData = <<>>
    /\ kmK = 0
    /\ centroids = <<>>
    /\ assignments = <<>>
    /\ iter = 0
    /\ suggestions = <<>>
    /\ callArg = <<>>
    /\ callResult = <<>>
    /\ posted = <<>>
    /\ objects = NoObjects
    /\ StoreIdle

NextOrdered == DitherBegin \/ DitherStep \/ DitherReturn

SpecOrdered == InitOrdered /\ [][NextOrdered]_vars

\* ------------------------------------------------------------ applyColorModifiers, called on its own

MaxModifierPixels == 2

\* brightness, contrast and saturation: the ends of the usual range, 0 and a value between
ModifierValues == {-100, 0, 40, 100}

InitModifiers ==
    /\ pc = "applyColorModifiers"
    /\ caller = "direct"
    /\ \E img \in Images(MaxModifierPixels, Pixels), mod \in ModifierValues \X ModifierValues \X ModifierValues :
          request = [type |-> "process", imageData |-> img,
                     settings |-> Settings(img.width, img.height, "nearest", "none", 0, FALSE, <<>>,
                                           FALSE, 0, mod, 0)]
    /\ processedImageData = NoImage
    /\ resizedImageData = NoImage
    /\ paletteRGB = <<>>
    /\ paletteLab = <<>>
    /\ pixelDataFloat = <<>>
    /\ ditherPos = 0
    /\ kmData = <<>>
    /\ kmK = 0
    /\ centroids = <<>>
    /\ assignments = <<>>
    /\ iter = 0
    /\ suggestions = <<>>
    /\ callArg = <<>>
    /\ callResult = <<>>
    /\ posted = <<>>
    /\ objects = NoObjects
    /\ StoreIdle

\* applyColorModifiers on request.imageData
ModifiersCall ==
    /\ pc = "applyColorModifiers"
    /\ processedImageData' =
          applyColorModifiers(request.imageData, request.settings.brightness,
                              request.settings.contrast, request.settings.saturation)
    /\ pc' = "returned"
    /\ UNCHANGED <<caller, request, resizedImageData, ditherVars, kmVars, suggestions, callVars,
                   posted>>
    /\ UNCHANGED <<objects, storeVars>>

NextModifiers == ModifiersCall

SpecModifiers == InitModifiers /\ [][NextModifiers]_vars

\* ------------------------------------------------------------ the resamplers, called on their own

MaxSrcPixels == 4
MaxDst == 3

ResamplePixels == {<<255, 0, 30, 255>>, <<0, 255, 200, 100>>}

InitResample ==
    /\ pc = "resample"
    /\ caller = "direct"
    /\ \E img \in Images(MaxSrcPixels, ResamplePixels), tw \in 1..MaxDst, th \in 1..MaxDst,
          rm \in {"nearest", "bilinear", "lanczos"} :
          request = [type |-> "process", imageData |-> img,
                     settings |-> Settings(tw, th, rm, "none", 0, FALSE, <<>>, FALSE, 0,
                                           <<0, 0, 0>>, 0)]
    /\ processedImageData = NoImage
    /\ resizedImageData = NoImage
    /\ paletteRGB = <<>>
    /\ paletteLab = <<>>
    /\ pixelDataFloat = <<>>
    /\ ditherPos = 0
    /\ kmData = <<>>
    /\ kmK = 0
    /\ centroids = <<>>
    /\ assignments = <<>>
    /\ iter = 0
    /\ suggestions = <<>>
    /\ callArg = <<>>
    /\ callResult = <<>>
    /\ posted = <<>>
    /\ objects = NoObjects
    /\ StoreIdle

\* resampleNearest, resampleBilinear or resampleLanczos on request.imageData
ResampleCall ==
    /\ pc = "resample"
    /\ resizedImageData' = Resample(request.settings.resamplingMethod, request.imageData,
                                    request.settings.targetWidth, request.settings.targetHeight)
    /\ pc' = "returned"
    /\ UNCHANGED <<caller, request, processedImageData, ditherVars, kmVars, suggestions, callVars,
                   posted>>
    /\ UNCHANGED <<objects, storeVars>>

NextResample == ResampleCall

SpecResample == InitResample /\ [][NextResample]_vars

\* ------------------------------------------------------------ findClosestColor, called on its own

\* the channel values of the pixels: bytes, and values only a working copy holds
ClosestChannels == {0, 128 * FP, 255 * FP, 300 * FP + 4375}

ClosestPalettes ==
    Palettes \cup {<<Red>>, <<Gray, Gray, Short>>, <<Short, Black, White>>, <<White, Gray, White, Gray>>}

InitClosest ==
    /\ pc = "findClosestColor"
    /\ caller = "direct"
    /\ request = NoRequest
    /\ processedImageData = NoImage
    /\ resizedImageData = NoImage
    /\ \E pal \in ClosestPalettes :
          /\ paletteRGB = PaletteRGB(pal)
          /\ paletteLab = PaletteLab(PaletteRGB(pal))
    /\ pixelDataFloat = <<>>
    /\ ditherPos = 0
    /\ kmData = <<>>
    /\ kmK = 0
    /\ centroids = <<>>
    /\ assignments = <<>>
    /\ iter = 0
    /\ suggestions = <<>>
    /\ \E r, g, b \in ClosestChannels : callArg = [r |-> r, g |-> g, b |-> b]
    /\ callResult = <<>>
    /\ posted = <<>>
    /\ objects = NoObjects
    /\ StoreIdle

\* findClosestColor(callArg, paletteRGB, paletteLab); index counts from 0
FindClosestCall ==
    /\ pc = "findClosestColor"
    /\ callResult' = [index |-> findClosestIndex(callArg, paletteLab) - 1,
                      color |-> findClosestColor(callArg, paletteRGB, paletteLab)]
    /\ pc' = "returned"
    /\ UNCHANGED <<caller, request, imageVars, ditherVars, kmVars, suggestions, callArg, posted>>
    /\ UNCHANGED <<objects, storeVars>>

NextClosest == FindClosestCall

SpecClosest == InitClosest /\ [][NextClosest]_vars

\* ------------------------------------------------------------ suggestMissingColors, called on its own

MaxSuggestPixels == 3

DarkPixel == <<10, 10, 10, 255>>

\* pixels of two colours above the sampling cutoff and one below it
SuggestPixels == {OpaquePixel, DarkPixel, ClearPixel}

InitSuggest ==
    /\ pc = "suggest"
    /\ caller = "suggest"
    /\ \E img \in RowImages(MaxSuggestPixels, SuggestPixels),
          pal \in {<<Black, White>>}, n \in {0, 2} :
          request = [type |-> "suggest", imageData |-> img,
                     settings |-> Settings(1, 1, "nearest", "none", 0, TRUE, pal, FALSE, 0,
                                           <<0, 0, 0>>, n)]
    /\ processedImageData = NoImage
    /\ resizedImageData = NoImage
    /\ paletteRGB = <<>>
    /\ paletteLab = <<>>
    /\ pixelDataFloat = <<>>
    /\ ditherPos = 0
    /\ kmData = <<>>
    /\ kmK = 0
    /\ centroids = <<>>
    /\ assignments = <<>>
    /\ iter = 0
    /\ suggestions = <<>>
    /\ callArg = <<>>
    /\ callResult = <<>>
    /\ posted = <<>>
    /\ objects = NoObjects
    /\ StoreIdle

NextSuggest == SuggestBegin \/ KmeansStart \/ KmeansRound \/ SuggestFinish \/ PostSuggestions

SpecSuggest == InitSuggest /\ [][NextSuggest]_vars

\* ------------------------------------------------------------ the sampling of suggestMissingColors, on large rasters

\* the rasters have up to MaxSampleFactor * maxPixels + 1 pixels
MaxSampleFactor == 3

SampleTotals ==
    {0, 1, 2} \cup UNION {{f * MaxPixels - 1, f * MaxPixels, f * MaxPixels + 1} : f \in 1..MaxSampleFactor}

\* which pixels are above the sampling cutoff: those with n % m = r
SamplePatterns == {<<1, 0>>, <<2, 0>>, <<2, 1>>, <<3, 0>>, <<3, 1>>, <<3, 2>>, <<1, 1>>}

\* A raster of one row whose pixel n carries its own number in R and G, and
\* alpha 255 or 0 after the pattern
NumberedImage(total, pattern) ==
    [width |-> total, height |-> IF total = 0 THEN 0 ELSE 1,
     data |-> [j \in 1..(4 * total) |->
                  LET n == (j - 1) \div 4
                      c == (j - 1) % 4
                  IN  IF c = 0 THEN n % 256
                      ELSE IF c = 1 THEN n \div 256
                      ELSE IF c = 2 THEN 0
                      ELSE IF n % pattern[1] = pattern[2] THEN 255 ELSE 0]]

InitSample ==
    /\ pc = "suggest"
    /\ caller = "suggest"
    /\ \E total \in SampleTotals, pattern \in SamplePatterns :
          request = [type |-> "suggest", imageData |-> NumberedImage(total, pattern),
                     settings |-> Settings(1, 1, "nearest", "none", 0, TRUE, <<Black, White>>,
                                           FALSE, 0, <<0, 0, 0>>, 0)]
    /\ processedImageData = NoImage
    /\ resizedImageData = NoImage
    /\ paletteRGB = <<>>
    /\ paletteLab = <<>>
    /\ pixelDataFloat = <<>>
    /\ ditherPos = 0
    /\ kmData = <<>>
    /\ kmK = 0
    /\ centroids = <<>>
    /\ assignments = <<>>
    /\ iter = 0
    /\ suggestions = <<>>
    /\ callArg = <<>>
    /\ callResult = <<>>
    /\ posted = <<>>
    /\ objects = NoObjects
    /\ StoreIdle

\* the run stops where suggestMissingColors calls kmeans
NextSample == SuggestBegin

SpecSample == InitSample /\ [][NextSample]_vars

\* ------------------------------------------------------------ the history operations, called in any order

\* how many operations a run makes
MaxStoreOps == 3

\* how long the undo history is when the run starts
PastLengths == {0, 1, DEFAULT_HISTORY.maxSteps - 1, DEFAULT_HISTORY.maxSteps}

UnlockedLayer == [id |-> "layer_1", x |-> 0, y |-> 0, locked |-> FALSE]
LockedLayer == [id |-> "layer_2", x |-> 5, y |-> 0, locked |-> TRUE]

LayerIds == {"layer_1", "layer_2"}

\* the store after n more calls of pushHistory
RECURSIVE PushedTimes(_, _)
PushedTimes(state, n) == IF n = 0 THEN state ELSE PushedTimes(pushHistory(state), n - 1)

\* A project of two layers whose history holds n entries already
InitHistory ==
    /\ Idle
    /\ \E n \in PastLengths, selected \in {<<>>, <<"layer_1", "layer_2">>} :
          store = PushedTimes(
              [InitialStore([DEFAULT_PROJECT_DATA EXCEPT !.layers = <<UnlockedLayer, LockedLayer>>])
                  EXCEPT !.selectedLayerIds = selected], n)
    /\ autoHistory = [lastProjectRef |-> store.project, timer |-> NoTimer]
    /\ scenario = [step |-> "start", ops |-> 0, before |-> store.project]

\* one store operation: step names the operation, ops counts them
StoreCall(op, newState) ==
    /\ scenario.ops < MaxStoreOps
    /\ store' = newState
    /\ scenario' = [step |-> op, ops |-> scenario.ops + 1, before |-> store.project]
    /\ UNCHANGED <<autoHistory, pc, caller, request, imageVars, ditherVars, kmVars, suggestions, callVars, posted, objects>>

PushHistoryCall == StoreCall("pushHistory", pushHistory(store))

MoveLayerCall == \E layerId \in LayerIds, deltaX \in {0, 1} : StoreCall("moveLayer", moveLayer(store, layerId, deltaX, 0))

StartDraggingLayerCall == \E layerId \in LayerIds : StoreCall("startDraggingLayer", startDraggingLayer(store, layerId, 0, 0))

UpdateDragPositionCall == \E currentX \in {0, 1} : StoreCall("updateDragPosition", updateDragPosition(store, currentX, 0))

StopDraggingLayerCall == StoreCall("stopDraggingLayer", stopDraggingLayer(store))

UndoCall == StoreCall("undo", undo(store))

RedoCall == StoreCall("redo", redo(store))

NextHistory ==
    \/ PushHistoryCall
    \/ MoveLayerCall
    \/ StartDraggingLayerCall
    \/ UpdateDragPositionCall
    \/ StopDraggingLayerCall
    \/ UndoCall
    \/ RedoCall

SpecHistory == InitHistory /\ [][NextHistory]_vars

\* ------------------------------------------------------------ one edit, the automatic push, one undo

\* the projects a session starts from
SessionProjects ==
    {[layers |-> layers, viewport |-> viewport] :
        layers \in {<<>>, <<UnlockedLayer>>, <<UnlockedLayer, LockedLayer>>},
        viewport \in {DEFAULT_PROJECT_DATA.viewport, [zoom |-> 200, panX |-> 10, panY |-> 0]}}

\* The component that mounts useAutoHistory has rendered with the project, and
\* an earlier automatic push may have left the project in the history
InitSession ==
    /\ Idle
    /\ \E project \in SessionProjects, n \in {0, 1} : store = PushedTimes(InitialStore(project), n)
    /\ autoHistory = [lastProjectRef |-> store.project, timer |-> NoTimer]
    /\ scenario = [step |-> "start", ops |-> 0, before |-> store.project]

\* the ids of the layers of a project
IdsOf(project) == {project.layers[i].id : i \in DOMAIN project.layers}

\* The user makes one edit; the component renders with the new project and the
\* effect of useAutoHistory runs
UserEdits(newState) ==
    /\ scenario.step = "start"
    /\ store' = newState
    /\ autoHistory' = useAutoHistoryEffect(autoHistory, newState.project)
    /\ scenario' = [step |-> "edited", ops |-> scenario.ops + 1, before |-> store.project]
    /\ UNCHANGED <<pc, caller, request, imageVars, ditherVars, kmVars, suggestions, callVars, posted, objects>>

AddLayerEdit ==
    \E id \in LayerIds \ IdsOf(store.project), x \in {0, 3} :
        UserEdits(addLayer(store, [x |-> x, y |-> 0, locked |-> FALSE], id))

UpdateLayerEdit ==
    \E layerId \in IdsOf(store.project), updates \in {[x |-> 7], [x |-> 7, y |-> 2], [locked |-> TRUE, y |-> 1]} :
        UserEdits(updateLayer(store, layerId, updates))

\* 500 ms have passed since the effect set the timer: its callback runs
DebounceFires ==
    /\ autoHistory.timer # NoTimer
    /\ store' = pushHistory(store)
    /\ autoHistory' = [lastProjectRef |-> autoHistory.timer[1], timer |-> NoTimer]
    /\ scenario' = [scenario EXCEPT !.step = IF @ = "edited" THEN "pushed" ELSE @]
    /\ UNCHANGED <<pc, caller, request, imageVars, ditherVars, kmVars, suggestions, callVars, posted, objects>>

\* After the automatic push the user presses Ctrl+Z once
UserUndoes ==
    /\ scenario.step = "pushed"
    /\ store' = undo(store)
    /\ autoHistory' = useAutoHistoryEffect(autoHistory, undo(store).project)
    /\ scenario' = [scenario EXCEPT !.step = "undone", !.ops = @ + 1]
    /\ UNCHANGED <<pc, caller, request, imageVars, ditherVars, kmVars, suggestions, callVars, posted, objects>>

NextSession == AddLayerEdit \/ UpdateLayerEdit \/ DebounceFires \/ UserUndoes

SpecSession == InitSession /\ [][NextSession]_vars

\* ------------------------------------------------------------ selection, deletion, paste and history

\* the ids a new layer can get
SelectionIds == {"layer_1", "layer_2", "layer_3"}

\* the ids of the layers in a sequence of layers
LayerIdsOf(layers) == {layers[i].id : i \in DOMAIN layers}

\* the ids the store holds anywhere; an id made of Date.now() and Math.random()
\* is none of them
UsedIds(state) ==
    LayerIdsOf(state.project.layers) \cup LayerIdsOf(state.ui.clipboardLayers)
    \cup Range(state.selectedLayerIds)
    \cup UNION {LayerIdsOf(state.history.past[i].layers) : i \in DOMAIN state.history.past}
    \cup UNION {LayerIdsOf(state.history.future[i].layers) : i \in DOMAIN state.history.future}

\* an empty store, and a store whose one layer has been selected and copied
InitSelection ==
    /\ Idle
    /\ store \in {InitialStore(DEFAULT_PROJECT_DATA),
                  copySelectedLayers(selectAllLayers(
                      addLayer(InitialStore(DEFAULT_PROJECT_DATA), UnlockedLayer, "layer_1")))}
    /\ autoHistory = [lastProjectRef |-> store.project, timer |-> NoTimer]
    /\ scenario = [step |-> "start", ops |-> 0, before |-> store.project]

AddLayerCall ==
    \E id \in SelectionIds \ UsedIds(store) :
        StoreCall("addLayer", addLayer(store, [x |-> 0, y |-> 0, locked |-> FALSE], id))

SelectLayerCall ==
    \E layerId \in LayerIdsOf(store.project.layers), multiSelect \in BOOLEAN :
        StoreCall("selectLayer", selectLayer(store, layerId, multiSelect))

SelectAllLayersCall == StoreCall("selectAllLayers", selectAllLayers(store))

RemoveLayerCall ==
    \E layerId \in LayerIdsOf(store.project.layers) :
        StoreCall("removeLayer", removeLayer(store, layerId))

DeleteSelectedLayersCall == StoreCall("deleteSelectedLayers", deleteSelectedLayers(store))

PasteSelectedLayersCall ==
    \E ids \in [DOMAIN store.ui.clipboardLayers -> SelectionIds \ UsedIds(store)] :
        /\ \A a, b \in DOMAIN ids : a # b => ids[a] # ids[b]
        /\ StoreCall("pasteSelectedLayers", pasteSelectedLayers(store, ids))

NextSelection ==
    \/ AddLayerCall
    \/ SelectLayerCall
    \/ SelectAllLayersCall
    \/ RemoveLayerCall
    \/ DeleteSelectedLayersCall
    \/ PasteSelectedLayersCall
    \/ PushHistoryCall
    \/ UndoCall
    \/ RedoCall

SpecSelection == InitSelection /\ [][NextSelection]_vars

\* ------------------------------------------------------------ properties of the worker

\* C1: a "process" request whose palette is empty or absent while ditherMethod
\* names a dithering algorithm other than "none" is answered with one error
\* response carrying a message, never with a success response carrying the
\* un-quantized raster.
C1_EmptyPaletteIsAnError ==
    (/\ pc = "done"
     /\ request.type = "process"
     /\ ~request.settings.hasPalette \/ Len(request.settings.palette) = 0
     /\ request.settings.ditherMethod # "none")
    => /\ Len(posted) = 1
       /\ posted[1].type = "error"
       /\ posted[1].message # ""

\* C4: the response to a "suggest" request with numSuggestions = N, N = 0
\* included, holds at most N colours.
C4_AtMostNSuggestions ==
    \A i \in 1..Len(posted) :
        posted[i].type = "suggestions"
        => Len(posted[i].suggestions) <= request.settings.numSuggestions

\* C5: suggestMissingColors returns the empty list, and raises no error, when
\* the palette is empty or no sampled pixel has alpha > 128, whatever count is
\* asked for.  The sampling loop visits every (step / 4)-th pixel.
C5_NothingToSuggest ==
    LET pixels == request.imageData.data
        step   == SampleStep(pixels)
        noSample == \A i \in 0..(Len(pixels) - 1) :
                        (i % step = 0) => At(pixels, i + 3) <= 128
    IN  (/\ request.type = "suggest"
         /\ request.settings.hasPalette
         /\ Len(request.settings.palette) = 0 \/ noSample)
        => /\ pc \notin {"catch", "kmeans", "kmeans_loop", "kmeans_resolved"}
           /\ pc \in {"post_suggestions", "done"} => suggestions = <<>>
           /\ pc = "done" => posted = <<Message("suggestions", NoImage, <<>>, "")>>

\* a palette with colours, two pixels at alpha 128 and 127, two colours asked
\* for: nothing is sampled and the answer is the empty list
C5_Witness ==
    /\ pc = "done"
    /\ request.type = "suggest"
    /\ request.settings.palette = <<Black, White>>
    /\ request.settings.numSuggestions = 2
    /\ request.imageData.data = CutoffPixel \o ClearPixel
    /\ posted = <<Message("suggestions", NoImage, <<>>, "")>>

\* C12: within one "process" request the stages run in the order colour
\* modifiers, resampling, k-means recolour, dithering.  The handler never goes
\* back to an earlier stage; each raster is written only in its own stage; the
\* resampler reads the modifiers' output, and recolouring and dithering work on
\* the resampler's output; the success response is posted last, after the
\* dithering loop has passed every pixel, and carries that raster.
C12_StagesInOrder ==
    [][LET stage(p) == CASE p = "modifiers" -> 0
                         [] p = "resize" -> 1
                         [] p \in {"cluster", "kmeans", "kmeans_loop", "kmeans_resolved"} -> 2
                         [] p \in {"dither", "applyDithering", "dither_loop"} -> 3
                         [] p = "post" -> 4
                         [] OTHER -> 5
           t == request.settings
       IN  (caller = "process" /\ pc # "done")
           => /\ stage(pc') >= stage(pc)
              /\ request' = request
              /\ processedImageData' # processedImageData => pc = "modifiers"
              /\ resizedImageData' # resizedImageData
                 => pc \in {"resize", "kmeans_resolved", "dither_loop"}
              /\ posted' # posted => pc \in {"post", "catch"}
              /\ (pc = "resize" /\ pc' # "catch")
                 => resizedImageData' =
                       Resample(t.resamplingMethod, processedImageData, t.targetWidth, t.targetHeight)
              /\ pc = "kmeans_resolved"
                 => resizedImageData'.data = RecolorPixels(resizedImageData.data, centroids)
              /\ pc = "post"
                 => /\ posted' = <<Message("success", resizedImageData, <<>>, "")>>
                    /\ (t.hasPalette /\ Len(t.palette) > 0)
                       => ditherPos = resizedImageData.width * resizedImageData.height
    ]_vars

\* a request with modifiers, k-means and Floyd-Steinberg on two opaque pixels has
\* gone through every stage and is answered with a raster that the stages changed
C12_Witness ==
    /\ pc = "done"
    /\ request.type = "process"
    /\ request.settings.brightness # 0
    /\ request.settings.useKmeans
    /\ request.settings.ditherMethod = "floyd-steinberg"
    /\ Len(request.settings.palette) > 0
    /\ request.settings.targetWidth = 2
    /\ Len(centroids) > 0
    /\ ditherPos = 2
    /\ posted = <<Message("success", resizedImageData, <<>>, "")>>
    /\ resizedImageData.data # request.imageData.data
    /\ processedImageData.data # request.imageData.data

\* ------------------------------------------------------------ properties of applyDithering

\* C2: palette closure.  After applyDithering with an ordered or an
\* error-diffusion algorithm, any strength and a palette with colours, every
\* pixel has alpha 0 or 255 and every pixel with alpha 255 has the RGB of some
\* palette entry.
C2_DitherPaletteClosure ==
    (/\ pc = "returned"
     /\ request.settings.ditherMethod \in DOMAIN ditherMatrices \cup DOMAIN errorKernels)
    => LET out == resizedImageData.data
           pal == PaletteRGB(request.settings.palette)
       IN  \A n \in 0..(resizedImageData.width * resizedImageData.height - 1) :
              /\ At(out, 4 * n + 3) \in {0, 255}
              /\ At(out, 4 * n + 3) = 255
                 => \E i \in 1..Len(pal) :
                       /\ pal[i].r = At(out, 4 * n)
                       /\ pal[i].g = At(out, 4 * n + 1)
                       /\ pal[i].b = At(out, 4 * n + 2)

\* error diffusion at full strength has recoloured an opaque pixel and has
\* cleared a pixel below the cutoff
C2_Witness ==
    /\ pc = "returned"
    /\ request.settings.ditherMethod = "floyd-steinberg"
    /\ request.settings.ditherStrength = 100
    /\ \E n, m \in 0..(resizedImageData.width * resizedImageData.height - 1) :
          /\ At(resizedImageData.data, 4 * n + 3) = 255
          /\ At(resizedImageData.data, 4 * n) # At(request.imageData.data, 4 * n)
          /\ At(resizedImageData.data, 4 * m + 3) = 0
          /\ At(request.imageData.data, 4 * m + 3) > 0

\* C3: transparency cutoff.  With a palette with colours and any method, ordered,
\* error diffusion or "none", a pixel that comes in with alpha < 128 goes out
\* with alpha 0 and a pixel that comes in with alpha >= 128 goes out with alpha
\* 255; error diffusion leaves the alpha its working copy holds, and so the side
\* of the cutoff a pixel is on, as it came in.
C3_TransparencyCutoff ==
    LET in == request.imageData.data
        count == resizedImageData.width * resizedImageData.height
    IN  /\ pc = "returned"
           => \A n \in 0..(count - 1) :
                 At(resizedImageData.data, 4 * n + 3) = IF At(in, 4 * n + 3) < 128 THEN 0 ELSE 255
        /\ (pc = "dither_loop" /\ request.settings.ditherMethod \notin DOMAIN ditherMatrices)
           => /\ \A n \in 0..(count - 1) : At(pixelDataFloat, 4 * n + 3) = At(in, 4 * n + 3) * FP
              /\ \A n \in 0..(ditherPos - 1) :
                    At(resizedImageData.data, 4 * n + 3) = IF At(in, 4 * n + 3) < 128 THEN 0 ELSE 255

\* a pixel at alpha 128 has gone to 255 and one at alpha 127 to 0, next to each
\* other under error diffusion at full strength
C3_Witness ==
    /\ pc = "returned"
    /\ request.settings.ditherMethod \in DOMAIN errorKernels
    /\ request.settings.ditherStrength = 100
    /\ \E n \in 0..(resizedImageData.width * resizedImageData.height - 2) :
          /\ At(request.imageData.data, 4 * n + 3) = 128
          /\ At(resizedImageData.data, 4 * n + 3) = 255
          /\ At(request.imageData.data, 4 * n + 7) = 127
          /\ At(resizedImageData.data, 4 * n + 7) = 0

\* C13: under ordered dithering and under error diffusion a pixel that comes in
\* with alpha < 128 keeps its R, G and B, in the raster at every point of the
\* loop and on return, and in the working copy of error diffusion, where no
\* neighbour's error is ever added to it.
C13_ClearPixelsKeepRGB ==
    LET in == request.imageData.data
        count == resizedImageData.width * resizedImageData.height
    IN  (pc \in {"dither_loop", "returned"} /\ request.settings.ditherMethod # "none")
        => \A n \in 0..(count - 1) :
              At(in, 4 * n + 3) < 128
              => \A c \in 0..2 :
                    /\ At(resizedImageData.data, 4 * n + c) = At(in, 4 * n + c)
                    /\ pixelDataFloat # <<>>
                       => At(pixelDataFloat, 4 * n + c) = At(in, 4 * n + c) * FP

\* error diffusion at full strength has recoloured an opaque pixel, whose error
\* is not zero, and the pixel after it, below the cutoff, has its colour still
C13_Witness ==
    /\ pc = "returned"
    /\ request.settings.ditherMethod \in DOMAIN errorKernels
    /\ request.settings.ditherStrength = 100
    /\ resizedImageData.width >= 2
    /\ At(request.imageData.data, 3) = 255
    /\ \E c \in 0..2 : At(resizedImageData.data, c) # At(request.imageData.data, c)
    /\ At(request.imageData.data, 7) = 127
    /\ At(resizedImageData.data, 7) = 0
    /\ \A c \in 4..6 : At(resizedImageData.data, c) = At(request.imageData.data, c)

\* C27: at strength 0 every algorithm, each ordered matrix and each
\* error-diffusion kernel, returns the raster that "none" returns for the same
\* input and palette: a pixel with alpha >= 128 has become the palette colour
\* closest to its own input RGB, with alpha 255, and a pixel below the cutoff
\* keeps its RGB with alpha 0.
C27_StrengthZeroIsNone ==
    (pc = "returned" /\ request.settings.ditherStrength = 0)
    => LET in == request.imageData.data
           out == resizedImageData.data
           pal == paletteRGB
           lab == paletteLab
           none == DitherFrom([pixels |-> in, float |-> Float32Array(in)],
                              resizedImageData.width, resizedImageData.height, 0, "none", 0,
                              pal, lab).pixels
       IN  /\ out = none
           /\ Len(out) = Len(in)
           /\ \A n \in 0..(resizedImageData.width * resizedImageData.height - 1) :
                  LET closest == findClosestColor(
                         ByteRGB(At(in, 4 * n), At(in, 4 * n + 1), At(in, 4 * n + 2)), pal, lab)
                  IN  IF At(in, 4 * n + 3) >= 128
                      THEN /\ At(out, 4 * n) = closest.r
                           /\ At(out, 4 * n + 1) = closest.g
                           /\ At(out, 4 * n + 2) = closest.b
                           /\ At(out, 4 * n + 3) = 255
                      ELSE /\ At(out, 4 * n) = At(in, 4 * n)
                           /\ At(out, 4 * n + 1) = At(in, 4 * n + 1)
                           /\ At(out, 4 * n + 2) = At(in, 4 * n + 2)
                           /\ At(out, 4 * n + 3) = 0

\* an ordered matrix at strength 0 has returned the raster of "none" where the
\* same matrix at full strength would have returned another one
C27_Witness ==
    /\ pc = "returned"
    /\ request.settings.ditherStrength = 0
    /\ request.settings.ditherMethod \in DOMAIN ditherMatrices
    /\ resizedImageData.width * resizedImageData.height = MaxDitherPixels
    /\ resizedImageData.data =
          applyDithering(request.imageData, request.settings.palette, "none", 0)
    /\ resizedImageData.data #
          applyDithering(request.imageData, request.settings.palette,
                         request.settings.ditherMethod, 100)

\* C28: error diffusion, "none" included, is idempotent.  applyDithering run
\* again on what it returned, with the same palette, algorithm and strength,
\* returns the same raster: every pixel it visits is a palette colour already,
\* so no error is diffused and its working copy stays what it started as.
C28_DiffusionIdempotent ==
    (pc = "returned" /\ request.settings.ditherMethod \notin DOMAIN ditherMatrices)
    => LET out == resizedImageData.data
           again == DitherFrom([pixels |-> out, float |-> Float32Array(out)],
                               resizedImageData.width, resizedImageData.height, 0,
                               request.settings.ditherMethod, request.settings.ditherStrength,
                               paletteRGB, paletteLab)
       IN  /\ again.pixels = out
           /\ again.float = Float32Array(out)

\* Floyd-Steinberg at full strength has changed a raster of three opaque pixels,
\* two of them to different colours
C28_Witness ==
    /\ pc = "returned"
    /\ request.settings.ditherMethod = "floyd-steinberg"
    /\ request.settings.ditherStrength = 100
    /\ resizedImageData.width * resizedImageData.height = MaxDitherPixels
    /\ \A n \in 0..(MaxDitherPixels - 1) : At(request.imageData.data, 4 * n + 3) >= 128
    /\ At(resizedImageData.data, 0) # At(request.imageData.data, 0)
    /\ \E n \in 1..(MaxDitherPixels - 1) :
          At(resizedImageData.data, 4 * n) # At(resizedImageData.data, 0)
    /\ pixelDataFloat # Float32Array(request.imageData.data)

\* ------------------------------------------------------------ properties of the resamplers

C7_ResampleRange ==
    (pc = "returned" /\ request.settings.resamplingMethod \in {"bilinear", "lanczos"})
    => LET W1 == request.settings.targetWidth
           H1 == request.settings.targetHeight
           out == resizedImageData.data
       IN  /\ Len(out) = W1 * H1 * 4
           /\ \A i \in 1..Len(out) : out[i] \in 0..255
           /\ request.settings.resamplingMethod = "lanczos"
              => \A x \in 0..(W1 - 1), y \in 0..(H1 - 1) :
                    LET v == LanczosValue(request.imageData, W1, H1, x, y)
                    IN  \A c \in 0..3 :
                           /\ v[c + 1] < 0 => At(out, (y * W1 + x) * 4 + c) = 0
                           /\ v[c + 1] > 255 * FP => At(out, (y * W1 + x) * 4 + c) = 255

\* resampleLanczos has stored 0 for an average below 0 and 255 for one above 255
C7_Witness ==
    /\ pc = "returned"
    /\ request.settings.resamplingMethod = "lanczos"
    /\ LET W1 == request.settings.targetWidth
           H1 == request.settings.targetHeight
       IN  \E x1, x2 \in 0..(W1 - 1), y1, y2 \in 0..(H1 - 1), c1, c2 \in 0..3 :
              /\ LanczosValue(request.imageData, W1, H1, x1, y1)[c1 + 1] < 0
              /\ At(resizedImageData.data, (y1 * W1 + x1) * 4 + c1) = 0
              /\ LanczosValue(request.imageData, W1, H1, x2, y2)[c2 + 1] > 255 * FP
              /\ At(resizedImageData.data, (y2 * W1 + x2) * 4 + c2) = 255

\* ------------------------------------------------------------ properties of kmeans

\* C8: kmeans on N >= 1 points of one RGB value with K = 1 resolves with one
\* centroid, equal to that value, and N assignments, all 0, whichever point the
\* seed is.
C8_IdenticalPoints ==
    (/\ pc = "kmeans_resolved"
     /\ callArg.k = 1
     /\ Len(callArg.data) >= 1
     /\ \A i \in 1..Len(callArg.data) : callArg.data[i] = callArg.data[1])
    => /\ Len(centroids) = 1
       /\ \A c \in 1..3 : centroids[1].s[c] = centroids[1].n * callArg.data[1][c]
       /\ assignments = [i \in 1..Len(callArg.data) |-> 0]

C8_Witness ==
    /\ pc = "kmeans_resolved"
    /\ callArg.k = 1
    /\ callArg.data = <<<<10, 200, 30>>, <<10, 200, 30>>, <<10, 200, 30>>>>
    /\ Len(centroids) = 1
    /\ centroids[1].n = 3
    /\ assignments = <<0, 0, 0>>

\* C9: kmeans with K above the number of points resolves with as many centroids
\* as there are points; with K = 0 or without points it resolves with no
\* centroids and no assignments.  kmeans has no path that raises an error.
C9_ClampedK ==
    /\ pc = "kmeans_resolved"
       => /\ callArg.k > Len(callArg.data) => Len(centroids) = Len(callArg.data)
          /\ (callArg.k = 0 \/ Len(callArg.data) = 0)
             => (centroids = <<>> /\ assignments = <<>>)
    /\ pc = "kmeans_loop" /\ callArg.k > Len(callArg.data)
       => Len(centroids) = Len(callArg.data)

\* K = 3 on two points that differ: two centroids, each with its point
C9_Witness ==
    /\ pc = "kmeans_resolved"
    /\ callArg.k = 3
    /\ Len(callArg.data) = 2
    /\ callArg.data[1] # callArg.data[2]
    /\ Len(centroids) = 2
    /\ Len(assignments) = 2
    /\ assignments[1] # assignments[2]

\* C26: a "process" request never modifies the raster it was sent.  The
\* message's raster keeps its pixels through every step of the handler;
\* processedImageData is the message's raster or the new raster of
\* applyColorModifiers and is written by no later stage; resizedImageData is the
\* new raster of a resampler, and the k-means recolouring and the dithering,
\* which write in place, write to that raster only.
C26_InputRasterUntouched ==
    [][(request.type = "process" /\ pc \notin {"idle", "done"})
       => LET t == request.settings
              modified == t.brightness # 0 \/ t.contrast # 0 \/ t.saturation # 0
          IN  /\ request'.imageData = request.imageData
              /\ objects'.imageData = "message"
              /\ objects'.processedImageData =
                    (IF pc = "modifiers" THEN (IF modified THEN "applyColorModifiers" ELSE "message")
                     ELSE objects.processedImageData)
              /\ objects'.resizedImageData \in {NoObject, "resample"}
              /\ processedImageData' # processedImageData => pc = "modifiers"
              /\ resizedImageData' # resizedImageData
                 => /\ objects'.resizedImageData = "resample"
                    /\ objects'.resizedImageData \notin {objects'.imageData, objects'.processedImageData}
              /\ posted' # posted /\ pc = "post"
                 => objects.resizedImageData = "resample"
      ]_vars

\* a request without colour modifiers, so that processedImageData is the
\* message's raster, at the size of that raster, with k-means and dithering: the
\* answer differs from the message's raster, which is as it was sent
C26_Witness ==
    /\ pc = "done"
    /\ request.type = "process"
    /\ objects.processedImageData = "message"
    /\ objects.resizedImageData = "resample"
    /\ processedImageData = request.imageData
    /\ request.settings.useKmeans
    /\ Len(paletteRGB) > 0
    /\ request.settings.targetWidth = request.imageData.width
    /\ Len(posted) = 1
    /\ posted[1].type = "success"
    /\ posted[1].imageData.data # request.imageData.data
    /\ request.imageData.data = OpaquePixel \o OpaquePixel

C15_KmeansTerminates ==
    /\ <>(pc = "kmeans_resolved")
    /\ [][pc = "kmeans_loop"
          => LET same == \A i \in 1..Len(centroids) : \A c \in 1..3 :
                            centroids[i].s[c] * centroids'[i].n = centroids'[i].s[c] * centroids[i].n
             IN  /\ iter < 20
                 /\ Len(centroids') = Len(centroids)
                 /\ same => (pc' = "kmeans_resolved" /\ iter' = iter)
                 /\ ~same => iter' = iter + 1
                 /\ pc' = "kmeans_loop" => (iter' = iter + 1 /\ iter' < 20)
                 /\ pc' \in {"kmeans_loop", "kmeans_resolved"}
       ]_vars

\* kmeans has resolved after the 20th round, every round having re-seeded an
\* empty cluster with another point
C15_Witness ==
    /\ pc = "kmeans_resolved"
    /\ iter = 20

\* C23: from the seeding on and after every round, each centroid of kmeans is
\* the mean of the points assigned to it, of which there is at least one, or,
\* with no point assigned, a copy of an input point; so every channel of every
\* centroid lies between the least and the greatest value of that channel over
\* the input points, and within [0, 255]
C23_CentroidsAmongPoints ==
    (pc \in {"kmeans_loop", "kmeans_resolved"} /\ centroids # <<>>)
    => \A i \in 1..Len(centroids) :
          LET members == {p \in 1..Len(assignments) : assignments[p] = i - 1}
              cent == centroids[i]
          IN  /\ cent.n >= 1
              /\ IF members # {}
                 THEN \A c \in 1..3 :
                         cent.s[c] * Cardinality(members) = cent.n * SumFn([p \in members |-> kmData[p][c]])
                 ELSE \E p \in 1..Len(kmData) : \A c \in 1..3 : cent.s[c] = cent.n * kmData[p][c]
              /\ \A c \in 1..3 :
                    /\ \E p \in 1..Len(kmData) : kmData[p][c] * cent.n <= cent.s[c]
                    /\ \E p \in 1..Len(kmData) : kmData[p][c] * cent.n >= cent.s[c]
                    /\ 0 <= cent.s[c] /\ cent.s[c] <= 255 * cent.n

\* a round has put all three points, which are not all equal, into one cluster
\* and has re-seeded the other
C23_Witness ==
    /\ pc \in {"kmeans_loop", "kmeans_resolved"}
    /\ Len(centroids) = 2
    /\ assignments = <<0, 0, 0>>
    /\ kmData[1] # kmData[2]
    /\ centroids[1].n = 3
    /\ centroids[2].n = 1

\* C29: when kmeans resolves with K >= 1, assignments has one entry per input
\* point, every entry is an index in 0..K-1, and the entry of each point is the
\* lowest index of a returned centroid at the least squared distance from that
\* point, whether the loop ended at `if (!changed) break` or after 20 rounds
C29_AssignmentsMatchCentroids ==
    (pc = "kmeans_resolved" /\ kmK >= 1)
    => /\ Len(centroids) = kmK
       /\ Len(assignments) = Len(kmData)
       /\ \A p \in 1..Len(kmData) :
             /\ assignments[p] \in 0..(kmK - 1)
             /\ \A j \in 1..kmK :
                   LET own == centroids[assignments[p] + 1]
                       c   == centroids[j]
                   IN  /\ DistNum(kmData[p], own) * c.n * c.n <= DistNum(kmData[p], c) * own.n * own.n
                       /\ j - 1 < assignments[p]
                          => DistNum(kmData[p], own) * c.n * c.n < DistNum(kmData[p], c) * own.n * own.n

\* ------------------------------------------------------------ properties of findClosestColor

\* C10: findClosestColor returns a palette entry at the least deltaE from the
\* pixel, and of several entries at that distance the one with the lowest index.
C10_ClosestFirst ==
    pc = "returned"
    => LET dist(i) == getDeltaE(rgbToLab(callArg), paletteLab[i])
           found == callResult.index + 1
       IN  /\ found \in 1..Len(paletteRGB)
           /\ callResult.color = paletteRGB[found]
           /\ \A i \in 1..Len(paletteRGB) : dist(found) <= dist(i)
           /\ \A i \in 1..(found - 1) : dist(i) > dist(found)

\* the entry returned is not the first of the palette, and a later entry is at
\* the same distance
C10_Witness ==
    /\ pc = "returned"
    /\ callResult.index > 0
    /\ \E i \in (callResult.index + 2)..Len(paletteLab) :
          getDeltaE(rgbToLab(callArg), paletteLab[i])
             = getDeltaE(rgbToLab(callArg), paletteLab[callResult.index + 1])

\* ------------------------------------------------------------ properties of error diffusion

\* C11: Floyd-Steinberg shares.  When an opaque pixel (x, y) is quantized and its
\* neighbours (x+1, y), (x-1, y+1), (x, y+1), (x+1, y+1) are all inside the raster
\* and opaque, the working R, G and B of those neighbours grow by 7/16, 3/16,
\* 5/16 and 1/16 of the error e = (working value - colour written) * strength /
\* 100, and no other working value changes.  Values are held to 1/10000.
C11_FloydSteinbergShares ==
    [][LET w  == resizedImageData.width
           h  == resizedImageData.height
           x  == ditherPos % w
           y  == ditherPos \div w
           at(dx, dy) == ((y + dy) * w + (x + dx)) * 4
           shares == {<<1, 0, 7>>, <<-1, 1, 3>>, <<0, 1, 5>>, <<1, 1, 1>>}
           e(c) == RDiv((At(pixelDataFloat, at(0, 0) + c)
                           - At(resizedImageData'.data, at(0, 0) + c) * FP)
                        * request.settings.ditherStrength, 100)
       IN  (/\ pc = "dither_loop"
            /\ ditherPos' = ditherPos + 1
            /\ request.settings.ditherMethod = "floyd-steinberg"
            /\ x >= 1 /\ x + 1 < w /\ y + 1 < h
            /\ At(pixelDataFloat, at(0, 0) + 3) >= 128 * FP
            /\ \A k \in shares : At(pixelDataFloat, at(k[1], k[2]) + 3) >= 128 * FP)
           => /\ \A k \in shares : \A c \in 0..2 :
                    At(pixelDataFloat', at(k[1], k[2]) + c)
                       = At(pixelDataFloat, at(k[1], k[2]) + c) + RDiv(e(c) * k[3], 16)
              /\ \A i \in 0..(Len(pixelDataFloat) - 1) :
                    (\A k \in shares : \A c \in 0..2 : i # at(k[1], k[2]) + c)
                    => At(pixelDataFloat', i) = At(pixelDataFloat, i)
    ]_vars

\* the middle pixel of the top row of an all-opaque 3 x 2 raster has been
\* quantized and the pixel below and right of it, which takes error from no
\* earlier pixel, holds a sixteenth of the error
C11_Witness ==
    /\ pc = "dither_loop"
    /\ ditherPos = 2
    /\ request.settings.ditherMethod = "floyd-steinberg"
    /\ request.settings.ditherStrength = 100
    /\ resizedImageData.height = 2
    /\ \A n \in 0..5 : At(request.imageData.data, 4 * n + 3) = 255
    /\ At(pixelDataFloat, 20) # At(request.imageData.data, 20) * FP

\* the numerators of the entries i.. of a kernel, added up
RECURSIVE SumOfNum(_, _)
SumOfNum(kernel, i) == IF i > Len(kernel) THEN 0 ELSE kernel[i].num + SumOfNum(kernel, i + 1)

\* what one step of the loop added to channel c of the working copy, over the
\* pixels m.. of the raster
RECURSIVE AddedFrom(_, _, _, _)
AddedFrom(before, after, c, m) ==
    IF 4 * m >= Len(before) THEN 0
    ELSE (At(after, 4 * m + c) - At(before, 4 * m + c)) + AddedFrom(before, after, c, m + 1)

\* C18: every error-diffusion kernel has positive weights that sum to exactly 1
\* (the numerators over the common denominator add up to it) and only forward
\* offsets (dy > 0, or dy = 0 and dx > 0).  So one step of the loop changes the
\* working R, G, B only of pixels that come later in row-major order, and the
\* total it adds to a channel is no larger than the scaled error of the pixel;
\* the working values are held to 1/10000, which rounds each share by at most
\* half a unit
C18_ForwardKernels ==
    /\ \A name \in DOMAIN errorKernels :
          LET kernel == errorKernels[name]
          IN  /\ \A i \in 1..Len(kernel) :
                    /\ kernel[i].den = kernel[1].den
                    /\ kernel[i].num > 0
                    /\ kernel[i].dy > 0 \/ (kernel[i].dy = 0 /\ kernel[i].dx > 0)
              /\ SumOfNum(kernel, 1) = kernel[1].den
    /\ [][(pc = "dither_loop" /\ ditherPos' = ditherPos + 1 /\ pixelDataFloat # <<>>)
           => LET index == ditherPos * 4
                  kernel == errorKernels[request.settings.ditherMethod]
                  e(c) == RDiv((At(pixelDataFloat, index + c)
                                  - At(resizedImageData'.data, index + c) * FP)
                               * request.settings.ditherStrength, 100)
                  added(c) == AddedFrom(pixelDataFloat, pixelDataFloat', c, 0)
              IN  /\ \A m \in 0..ditherPos : \A c \in 0..3 :
                        At(pixelDataFloat', 4 * m + c) = At(pixelDataFloat, 4 * m + c)
                  /\ \A c \in 0..2 :
                        /\ 2 * Abs(added(c)) <= 2 * Abs(e(c)) + Len(kernel)
                        /\ e(c) >= 0 => added(c) >= 0
                        /\ e(c) <= 0 => added(c) <= 0
      ]_vars

\* burkes has quantized the first pixel of a raster of two opaque rows: the
\* pixel two to the right and the pixel below have taken their shares
C18_Witness ==
    /\ pc = "dither_loop"
    /\ ditherPos = 1
    /\ request.settings.ditherMethod = "burkes"
    /\ resizedImageData.height = 2
    /\ At(pixelDataFloat, 8) # At(request.imageData.data, 8) * FP
    /\ At(pixelDataFloat, 12) # At(request.imageData.data, 12) * FP

\* C19: the error of pixel (x, y) goes only to the pixels (x + dx, y + dy) of the
\* kernel that lie inside the raster and whose working alpha is at least 128.
\* Each of them takes its own share err * f; any other pixel, the pixel at the
\* other end of an adjacent row among them, keeps its working values, and the
\* share of an excluded neighbour goes to nobody.  A pixel below the alpha
\* cutoff hands out nothing.  Values are held to 1/10000.
C19_OnlyOpaqueNeighboursInside ==
    [][(pc = "dither_loop" /\ ditherPos' = ditherPos + 1 /\ pixelDataFloat # <<>>)
       => LET w == resizedImageData.width
              h == resizedImageData.height
              x == ditherPos % w
              y == ditherPos \div w
              index == ditherPos * 4
              kernel == errorKernels[request.settings.ditherMethod]
              e(c) == RDiv((At(pixelDataFloat, index + c)
                              - At(resizedImageData'.data, index + c) * FP)
                           * request.settings.ditherStrength, 100)
              entries(m) == {i \in 1..Len(kernel) :
                                /\ x + kernel[i].dx = m % w
                                /\ y + kernel[i].dy = m \div w}
              share(m, c) ==
                  IF entries(m) = {} \/ At(pixelDataFloat, 4 * m + 3) < 128 * FP
                  THEN 0
                  ELSE LET k == kernel[CHOOSE i \in entries(m) : TRUE]
                       IN  RDiv(e(c) * k.num, k.den)
          IN  IF At(pixelDataFloat, index + 3) < 128 * FP
              THEN pixelDataFloat' = pixelDataFloat
              ELSE \A m \in 0..(w * h - 1) :
                      /\ Cardinality(entries(m)) <= 1
                      /\ \A c \in 0..2 :
                            At(pixelDataFloat', 4 * m + c) = At(pixelDataFloat, 4 * m + c) + share(m, c)
                      /\ At(pixelDataFloat', 4 * m + 3) = At(pixelDataFloat, 4 * m + 3)
    ]_vars

\* Floyd-Steinberg has quantized the last pixel of the top row of a 3 x 2 raster
\* whose only opaque pixels are that one, the first of the bottom row and the
\* last of the bottom row: the pixel below has taken its share, the first pixel
\* of the bottom row has taken none
C19_Witness ==
    /\ pc = "dither_loop"
    /\ ditherPos = 3
    /\ request.settings.ditherMethod = "floyd-steinberg"
    /\ resizedImageData.height = 2
    /\ \A n \in 0..5 : At(request.imageData.data, 4 * n + 3) >= 128 <=> n \in {2, 3, 5}
    /\ At(pixelDataFloat, 20) # At(request.imageData.data, 20) * FP
    /\ \A c \in 0..2 : At(pixelDataFloat, 12 + c) = At(request.imageData.data, 12 + c) * FP

\* ------------------------------------------------------------ properties of applyColorModifiers

\* C14: applyColorModifiers returns a raster of the same dimensions in which
\* every pixel has the alpha it came in with, whatever brightness, contrast and
\* saturation are; with all three at 0 the raster returned equals the one given
\* in every channel of every pixel.
C14_ModifiersKeepAlpha ==
    pc = "returned"
    => LET in  == request.imageData
           out == processedImageData
           t   == request.settings
       IN  /\ out.width = in.width /\ out.height = in.height
           /\ Len(out.data) = Len(in.data)
           /\ \A n \in 0..(in.width * in.height - 1) :
                 At(out.data, 4 * n + 3) = At(in.data, 4 * n + 3)
           /\ (t.brightness = 0 /\ t.contrast = 0 /\ t.saturation = 0) => out.data = in.data

\* brightness, contrast and saturation have changed the colour of a pixel whose
\* alpha, 127, is as it was
C14_Witness ==
    /\ pc = "returned"
    /\ request.settings.brightness = 40
    /\ request.settings.contrast = -100
    /\ request.settings.saturation = 100
    /\ At(request.imageData.data, 3) = 127
    /\ At(processedImageData.data, 3) = 127
    /\ At(processedImageData.data, 0) # At(request.imageData.data, 0)

\* ------------------------------------------------------------ properties of the history

\* C16: the undo history never holds more than 50 entries, whatever sequence of
\* pushHistory, moveLayer, stopDraggingLayer, undo and redo led to it. The
\* operations that push drop the oldest entry above 50 and empty future; undo and
\* redo move one entry between past and future, so that redo, which has no cap
\* of its own, never finds more than 50 entries in past and future together
C16_HistoryCap ==
    /\ Len(store.history.past) <= 50
    /\ Len(store.history.past) + Len(store.history.future) <= store.history.maxSteps

\* redo has just put the fiftieth entry back
C16_Witness ==
    /\ scenario.step = "redo"
    /\ Len(store.history.past) = 50
    /\ scenario.before # store.project

\* C17: undo reverts the last action. After one edit of the project (addLayer,
\* updateLayer) and the automatic push of useAutoHistory that follows it, one undo
\* gives the project the layers and settings it had before the edit; the
\* viewport, which undo keeps, is left out of the comparison
C17_UndoRevertsLastAction ==
    scenario.step = "undone" =>
        ProjectWithoutViewport(store.project) = ProjectWithoutViewport(scenario.before)

\* C24: undo followed at once by redo gives back the project as it was before
\* the undo, and history.past and history.future as they were; undo and redo
\* each leave project.viewport as it is; undo with an empty past and redo with an
\* empty future change nothing
C24_UndoRedoRoundTrip ==
    /\ Len(store.history.past) > 0
       => /\ redo(undo(store)).project = store.project
          /\ redo(undo(store)).history.past = store.history.past
          /\ redo(undo(store)).history.future = store.history.future
    /\ undo(store).project.viewport = store.project.viewport
    /\ redo(store).project.viewport = store.project.viewport
    /\ Len(store.history.past) = 0 => undo(store) = store
    /\ Len(store.history.future) = 0 => redo(store) = store

\* C30: after any sequence of addLayer, selectLayer on an existing layer,
\* selectAllLayers, removeLayer, deleteSelectedLayers, pasteSelectedLayers,
\* pushHistory, undo and redo, every id in selectedLayerIds is the id of a layer
\* of project.layers
C30_SelectionIsOfLayers ==
    Range(store.selectedLayerIds) \subseteq LayerIdsOf(store.project.layers)

\* ------------------------------------------------------------ properties of ordered dithering

\* the nudge (threshold / divisor - 0.5) * 64 * strength / 100, held to 1/10000
NudgeOf(threshold, divisor, strength) ==
    ((2 * threshold - divisor) * 32 * strength * (FP \div 100)) \div divisor

\* C20: ordered dithering is per pixel.  One step of the loop at a pixel (x, y)
\* with alpha >= 128 writes findClosestColor of the pixel's own input R, G, B
\* plus the nudge (M[y mod S][x mod S] / divisor - 0.5) * 64 * strength / 100,
\* each channel clamped to [0, 255], and alpha 255; the pixel is still as it came
\* in when the step reads it, and the step changes no other pixel.  For every
\* cell of the matrix of the request and every strength in 0..100 the nudge is
\* between -32 and 32.
C20_OrderedPerPixel ==
    /\ [](pc = "applyDithering" /\ request.settings.ditherMethod \in DOMAIN ditherMatrices
          => LET m == ditherMatrices[request.settings.ditherMethod]
             IN  \A row, col \in 1..m.size : \A strength \in 0..100 :
                    /\ NudgeOf(m.matrix[row][col], m.divisor, strength) >= -32 * FP
                    /\ NudgeOf(m.matrix[row][col], m.divisor, strength) <= 32 * FP)
    /\ [][(/\ pc = "dither_loop"
           /\ ditherPos' = ditherPos + 1
           /\ request.settings.ditherMethod \in DOMAIN ditherMatrices)
          => LET in == request.imageData.data
                 w == resizedImageData.width
                 index == ditherPos * 4
                 dither == ditherMatrices[request.settings.ditherMethod]
                 threshold == dither.matrix[((ditherPos \div w) % dither.size) + 1][((ditherPos % w) % dither.size) + 1]
                 nudge == NudgeOf(threshold, dither.divisor, request.settings.ditherStrength)
                 clamped(c) == Max(0, Min(255 * FP, At(in, index + c) * FP + nudge))
                 expected == findClosestColor([r |-> clamped(0), g |-> clamped(1), b |-> clamped(2)],
                                              PaletteRGB(request.settings.palette), paletteLab)
             IN  /\ \A c \in 0..3 : At(resizedImageData.data, index + c) = At(in, index + c)
                 /\ At(in, index + 3) >= 128
                    => /\ At(resizedImageData'.data, index) = expected.r
                       /\ At(resizedImageData'.data, index + 1) = expected.g
                       /\ At(resizedImageData'.data, index + 2) = expected.b
                       /\ At(resizedImageData'.data, index + 3) = 255
                 /\ \A j \in 0..(Len(in) - 1) :
                       j \notin index..(index + 3)
                       => At(resizedImageData'.data, j) = At(resizedImageData.data, j)
      ]_vars

\* bayer-4x4 at full strength has gone down a column of five equal grey pixels:
\* the nudge has sent the fourth to white and the fifth, which meets the first
\* row of the matrix again, to black like the first
C20_Witness ==
    /\ pc = "returned"
    /\ request.settings.ditherMethod = "bayer-4x4"
    /\ request.settings.ditherStrength = 100
    /\ request.settings.palette = <<Black, White>>
    /\ resizedImageData.width = 1
    /\ resizedImageData.height = 5
    /\ \A n \in 0..4 : At(request.imageData.data, 4 * n + 3) = 128
    /\ At(resizedImageData.data, 0) = 0
    /\ At(resizedImageData.data, 12) = 255
    /\ At(resizedImageData.data, 16) = 0

\* ------------------------------------------------------------ properties of suggestMissingColors

\* C21: the list suggestMissingColors returns after kmeans names centroids that
\* differ from one another, each with at least one sampled pixel assigned to it,
\* by the hex of their rounded colour, in an order in which the total error
\* (the least deltaE from the rounded centroid to a palette colour, times the
\* number of pixels assigned) never grows
C21_SuggestionsByTotalError ==
    (pc = "post_suggestions" /\ centroids # <<>>)
    => LET lab == PaletteLab(PaletteRGB(request.settings.palette))
           count == [i \in 1..Len(centroids) |->
                        Cardinality({p \in 1..Len(assignments) : assignments[p] = i - 1})]
           rgb == [i \in 1..Len(centroids) |->
                      ByteRGB(RoundCentroid(centroids[i], 1), RoundCentroid(centroids[i], 2),
                              RoundCentroid(centroids[i], 3))]
           error == [i \in 1..Len(centroids) |->
                        CHOOSE d \in {getDeltaE(rgbToLab(rgb[i]), lab[j]) : j \in 1..Len(lab)} :
                            \A j \in 1..Len(lab) : d <= getDeltaE(rgbToLab(rgb[i]), lab[j])]
           hex == [i \in 1..Len(centroids) |-> rgbToHex(rgb[i])]
       IN  \E of \in [1..Len(suggestions) -> 1..Len(centroids)] :
              /\ \A a, b \in 1..Len(suggestions) : a # b => of[a] # of[b]
              /\ \A a \in 1..Len(suggestions) :
                    /\ count[of[a]] >= 1
                    /\ suggestions[a] = hex[of[a]]
              /\ \A a \in 1..(Len(suggestions) - 1) :
                    error[of[a]] * count[of[a]] >= error[of[a + 1]] * count[of[a + 1]]

\* two colours are suggested: the dark one, which two of the three pixels have,
\* before the other
C21_Witness ==
    /\ pc = "post_suggestions"
    /\ Len(suggestions) = 2
    /\ suggestions[1] # suggestions[2]
    /\ kmData = <<<<200, 30, 30>>, <<10, 10, 10>>, <<10, 10, 10>>>>
    /\ request.settings.palette = <<Black, White>>

\* C22: suggestMissingColors samples the pixels whose number is a multiple of
\* the stride ceil(totalPixels / 4096), in order, and keeps those with alpha >
\* 128; it visits at most 4096 pixels; it passes min(128, number of pixels kept)
\* to kmeans as the cluster count; the stride is at least 1 for every raster
\* with pixels, so that the loop advances, and a raster without pixels is
\* answered with the empty list without any sampling.  The pixels of the
\* rasters carry their number in R and G.
C22_SamplingStride ==
    LET pixels == request.imageData.data
        totalPixels == Len(pixels) \div 4
        stride == (totalPixels + 4095) \div 4096
        visited == {n \in 0..(totalPixels - 1) : n % stride = 0}
        kept == {n \in visited : At(pixels, 4 * n + 3) > 128}
        number(p) == p[1] + 256 * p[2]
    IN  /\ totalPixels > 0 => stride >= 1
        /\ Cardinality(visited) <= 4096
        /\ pc \in {"suggest", "kmeans", "post_suggestions"}
        /\ pc = "kmeans"
           => /\ Len(kmData) = Cardinality(kept)
              /\ Len(kmData) >= 1
              /\ \A i \in 1..Len(kmData) :
                    /\ number(kmData[i]) \in kept
                    /\ i < Len(kmData) => number(kmData[i]) < number(kmData[i + 1])
              /\ kmK = IF Len(kmData) < 128 THEN Len(kmData) ELSE 128
        /\ pc = "post_suggestions" => (kept = {} /\ kmData = <<>> /\ suggestions = <<>>)
        /\ (totalPixels = 0 /\ pc # "suggest") => pc = "post_suggestions"

\* a raster of 2 * 4096 + 1 opaque pixels: every third pixel is sampled, 2731 in
\* all, and kmeans is asked for 128 clusters
C22_Witness ==
    /\ pc = "kmeans"
    /\ Len(request.imageData.data) = 4 * 8193
    /\ Len(kmData) = 2731
    /\ kmData[2] = <<3, 0, 0>>
    /\ kmK = 128

====
